---- MODULE Spec2Model ----
(***************************************************************************)
(* Verification model of the Delta flight-menu integration layer.          *)
(*                                                                         *)
(*   Part I   DeltaOAuthManager   (src/src/client/oauth_manager.py)        *)
(*   Part II  DeltaMenuClient     (src/src/client/delta_client.py)         *)
(*            with the pydantic models of src/src/models/menu.py           *)
(***************************************************************************)
EXTENDS Integers, Sequences, FiniteSets, TLC

\* Python's None (JSON null)
None == [t |-> "null"]

(***************************************************************************)
(* Bounds of the model                                                     *)
(***************************************************************************)
\* number of coroutines that may call get_access_token
NumCallers == 2
\* the clock stops advancing here
MaxTime == 90
\* total number of credential exchanges the model lets callers send
MaxExchanges == 3

\* credential exchanges SpecTool and SpecClient let callers send
MaxClientExchanges == 2

\* calls of one client in progress at the same time
MaxInFlight == 3

\* pools create_pool makes in a run
MaxPools == 2

Callers == 1..NumCallers

\* seconds by which one step of the clock advances it
TickStep == 30

(***************************************************************************)
(* Part I.  DeltaOAuthManager                                              *)
(***************************************************************************)

\* the "1 min buffer" of get_access_token
Margin == 60

\* expires_in values the token endpoint may answer with
ExpiresInSet == {60, 61, 120}

\* status codes and bodies of a non-200 answer of the token endpoint
FailStatuses == {204, 401}
FailBodies == {"invalid_client", "unavailable"}

\* What `await self._client.post(TOKEN_URL, ...)` can produce: a response
\* (status_code, text, parsed json) or an exception raised by httpx.
\* issuedId is the access token the server would hand out.
TokenResponses(issuedId) ==
       { [kind |-> "response", status_code |-> 200, text |-> "json",
          json |-> [access_token |-> issuedId, token_type |-> "Bearer", expires_in |-> e]]
            : e \in ExpiresInSet }
  \cup { [kind |-> "response", status_code |-> 200, text |-> "json",
          json |-> [token_type |-> "Bearer"]] }
  \cup { [kind |-> "response", status_code |-> 200, text |-> "not json", json |-> None] }
  \cup { [kind |-> "response", status_code |-> s, text |-> b, json |-> None]
            : s \in FailStatuses, b \in FailBodies }
  \cup { [kind |-> "TimeoutException"], [kind |-> "ConnectError"] }

\* dataclass OAuthToken
OAuthToken(access_token, token_type, expires_in, expires_at) ==
  [access_token |-> access_token, token_type |-> token_type,
   expires_in |-> expires_in, expires_at |-> expires_at]

\* TokenUsable with the comparison slipped from > to >=
TokenUsable_AtMargin(tok, t) ==
  /\ tok # None
  /\ tok.expires_at >= t + Margin

\* the cache test of get_access_token:
\*   self._token and self._token.expires_at > time.time() + 60
TokenUsable(tok, t) ==
  /\ tok # None
  /\ tok.expires_at > t + Margin

\* an exception object: its class and the parts of its message
Exception(parts) == [class |-> "Exception", message |-> parts]

\* data['access_token'], data['token_type'], data['expires_in'] all present
HasTokenKeys(json) ==
  /\ json # None
  /\ {"access_token", "token_type", "expires_in"} \subseteq DOMAIN json

\* _refresh_token, from the answer of the POST on: the new value of
\* self._token and the exception raised (None when it returns normally).
\*   200 and a complete body : self._token replaced, expires_at = now + expires_in
\*   200, body not JSON or a key missing : the JSONDecodeError / KeyError is
\*        caught by `except Exception` and re-raised wrapped
\*   other status : Exception("OAuth token request failed: <status> - <text>")
\*        raised inside the try, caught by `except Exception`, wrapped
\*   httpx.TimeoutException : Exception("OAuth token request timed out")
\*   any other exception : wrapped
refresh_token(resp, tok, t) ==
  IF resp.kind = "TimeoutException"
    THEN [token |-> tok, raised |-> Exception(<<"OAuth token request timed out">>)]
  ELSE IF resp.kind # "response"
    THEN [token |-> tok,
          raised |-> Exception(<<"Failed to get OAuth token: ", resp.kind>>)]
  ELSE IF resp.status_code = 200
    THEN IF HasTokenKeys(resp.json)
           THEN [token |-> OAuthToken(resp.json.access_token, resp.json.token_type,
                                      resp.json.expires_in, t + resp.json.expires_in),
                 raised |-> None]
           ELSE [token |-> tok,
                 raised |-> Exception(<<"Failed to get OAuth token: ",
                                        IF resp.json = None THEN "JSONDecodeError"
                                                            ELSE "KeyError">>)]
  ELSE [token |-> tok,
        raised |-> Exception(<<"Failed to get OAuth token: ",
                               "OAuth token request failed: ",
                               ToString(resp.status_code), " - ", resp.text>>)]

\* AfterRefresh falling back to the cached token when the exchange fails
AfterRefresh_StaleFallback(resp, tok, t) ==
  LET r == refresh_token(resp, tok, t)
  IN  IF r.raised # None /\ r.token = None
        THEN [token |-> r.token, pc |-> "raised", value |-> r.raised]
        ELSE [token |-> r.token, pc |-> "returned",
              value |-> [access_token |-> r.token.access_token]]

\* The tail of get_access_token after `await self._refresh_token()`:
\* an exception of _refresh_token propagates, otherwise
\* `return self._token.access_token`.
AfterRefresh(resp, tok, t) ==
  LET r == refresh_token(resp, tok, t)
  IN  IF r.raised # None
        THEN [token |-> r.token, pc |-> "raised", value |-> r.raised]
        ELSE [token |-> r.token, pc |-> "returned",
              value |-> [access_token |-> r.token.access_token]]

\* ---- httpx.AsyncClient, the HTTP transport ----

\* httpx.AsyncClient(...): a new client object, open
AsyncClient(id) == [id |-> id, state |-> "open"]

\* AsyncClient.aclose
aclose(client) == [client EXCEPT !.state = "closed"]

\* send opening a new transport when the client was closed
send_Reopening(client) ==
  [sent |-> TRUE,
   client |-> IF client.state = "closed" THEN AsyncClient(client.id + 2) ELSE client]

\* AsyncClient.get / .post up to the request leaving: a closed client raises
\* RuntimeError and sends nothing; the client object is the one it was
send(client) == [sent |-> client.state = "open", client |-> client]

\* what a request on a closed client raises
ClientClosed == [kind |-> "RuntimeError"]

VARIABLES
  now,         \* time.time()
  token,       \* DeltaOAuthManager._token
  pc,          \* per caller: "idle", "refreshing" (awaiting the POST), "returned", "raised"
  result,      \* per caller: the value returned or the exception raised
  upstream,    \* per caller: the answer its POST received (None: no POST answered)
  retInfo,     \* per caller: clock and expires_at of the token at the moment of return
  exchanges,   \* number of credential exchanges sent so far
  issued,      \* number of access tokens the endpoint has issued
  lastOutcome, \* how the most recently completed call ended: "none", "returned", "raised"
  mpc,         \* per caller of get_menu_by_flight: "idle", "awaiting" (the GET), "done"
  mreq,        \* per caller: the request object passed in
  mup,         \* per caller: what the GET produced (None: no GET answered)
  mout,        \* per caller: how the call ended, Ret(value) or Raise(exception)
  msent,       \* per caller: number of GETs the call has sent
  vtoday,      \* date.today() at the last validation
  vquery,      \* the query last validated
  vresult,     \* the ValidationResult last returned
  apc,         \* per caller of check_menu_availability: "idle", "refreshing"
               \* (awaiting the token exchange), "posting" (awaiting the POST), "done"
  alegs,       \* per caller: the flight_legs passed in
  aauth,       \* per caller: how get_access_token ended (None: not yet)
  aup,         \* per caller: what the POST produced (None: no POST answered)
  aout,        \* per caller: how the call ended, Ret(value) or Raise(exception)
  asent,       \* per caller: the HTTP requests the call has sent, in order
  tpc,         \* per caller of the get_menu_by_flight tool: "idle", "availability"
               \* (awaiting check_menu_availability), "menu" (awaiting
               \* get_menu_by_flight of the client), "done"
  targs,       \* per caller: the arguments of the tool call
  tout,        \* per caller: how the tool call ended
  http,        \* DeltaMenuClient.client
  oauthHttp,   \* DeltaOAuthManager._client
  closing,     \* DeltaMenuClient.close(): "no" (not called), "closing" (its
               \* first await has ended), "closed" (it has returned)
  hpc,         \* per caller of check_api_health: "idle", "awaiting", "done"
  hup,         \* per caller: what the probe's GET produced
  hout,        \* per caller: the dict check_api_health returned
  pool,        \* OracleConnectionPool: _pool (0: None, else the number of a
               \* pool) and the pools create_pool has made, each open or
               \* closed and with its connections out
  lpc,         \* per caller of lookup_flights: "idle", "connecting" (awaiting
               \* get_db_connection), "create_pool", "acquire", "query",
               \* "release" (the statement it is about to run), "done"
  lreq,        \* per caller: the request passed in
  ldb,         \* per caller: what the database did during the call
  lout,        \* per caller: how the call ended
  lacq,        \* per caller: connections the call has acquired
  lrel,        \* per caller: connections the call has released
  lconn,       \* per caller: the pool its connection is of (0: no connection)
  lbody,       \* per caller: how the body of its `with` statement ended
  loop,        \* the caller whose `with` statement the event loop is running
               \* (0: none; the statement has no await)
  ipc,         \* the worker thread of initialize_db_pool: "idle", "started",
               \* "create_pool"
  cpc          \* the worker thread of close_db_pool: "idle", "started",
               \* "assign" (the pool is closed, _pool not yet None)

oauthVars == <<now, token, pc, result, upstream, retInfo, exchanges, issued, lastOutcome>>
menuVars == <<mpc, mreq, mup, mout, msent>>
validateVars == <<vtoday, vquery, vresult>>
availVars == <<apc, alegs, aauth, aup, aout, asent>>
toolVars == <<tpc, targs, tout>>
transportVars == <<http, oauthHttp, closing>>
healthVars == <<hpc, hup, hout>>
lookupVars == <<pool, lpc, lreq, ldb, lout, lacq, lrel, lconn, lbody, loop, ipc, cpc>>
\* the state no call of the client or of the tool touches
sideVars == <<validateVars, healthVars, lookupVars>>
extVars == <<validateVars, availVars, toolVars, transportVars, healthVars, lookupVars>>
vars == <<oauthVars, menuVars, extVars>>

\* state after DeltaMenuClient.__init__ and DeltaOAuthManager.__init__: each
\* has created its transport, no token is cached
Init ==
  /\ now = 0
  /\ token = None
  /\ pc = [c \in Callers |-> "idle"]
  /\ result = [c \in Callers |-> None]
  /\ upstream = [c \in Callers |-> None]
  /\ retInfo = [c \in Callers |-> None]
  /\ exchanges = 0
  /\ issued = 0
  /\ lastOutcome = "none"
  /\ mpc = [c \in Callers |-> "idle"]
  /\ mreq = [c \in Callers |-> None]
  /\ mup = [c \in Callers |-> None]
  /\ mout = [c \in Callers |-> None]
  /\ msent = [c \in Callers |-> 0]
  /\ vtoday = None
  /\ vquery = None
  /\ vresult = None
  /\ apc = [c \in Callers |-> "idle"]
  /\ alegs = [c \in Callers |-> None]
  /\ aauth = [c \in Callers |-> None]
  /\ aup = [c \in Callers |-> None]
  /\ aout = [c \in Callers |-> None]
  /\ asent = [c \in Callers |-> <<>>]
  /\ tpc = [c \in Callers |-> "idle"]
  /\ targs = [c \in Callers |-> None]
  /\ tout = [c \in Callers |-> None]
  /\ http = AsyncClient(1)
  /\ oauthHttp = AsyncClient(2)
  /\ closing = "no"
  /\ hpc = [c \in Callers |-> "idle"]
  /\ hup = [c \in Callers |-> None]
  /\ hout = [c \in Callers |-> None]
  /\ pool = [_pool |-> 0, pools |-> <<>>]
  /\ lpc = [c \in Callers |-> "idle"]
  /\ lreq = [c \in Callers |-> None]
  /\ ldb = [c \in Callers |-> None]
  /\ lout = [c \in Callers |-> None]
  /\ lacq = [c \in Callers |-> 0]
  /\ lrel = [c \in Callers |-> 0]
  /\ lconn = [c \in Callers |-> 0]
  /\ lbody = [c \in Callers |-> None]
  /\ loop = 0
  /\ ipc = "idle"
  /\ cpc = "idle"

\* get_access_token up to its first suspension point: the cache test, then
\* either the immediate return or the POST of _refresh_token being sent; on
\* a closed transport the POST raises at once and _refresh_token wraps it.
GetAccessToken(c) ==
  /\ pc[c] = "idle"
  /\ IF TokenUsable(token, now)
       THEN /\ pc' = [pc EXCEPT ![c] = "returned"]
            /\ result' = [result EXCEPT ![c] = [access_token |-> token.access_token]]
            /\ retInfo' = [retInfo EXCEPT ![c] = [at |-> now, expires_at |-> token.expires_at]]
            /\ lastOutcome' = "returned"
            /\ UNCHANGED <<exchanges, oauthHttp>>
       ELSE LET s == send(oauthHttp)
            IN  /\ oauthHttp' = s.client
                /\ IF s.sent
                     THEN /\ exchanges < MaxExchanges
                          /\ pc' = [pc EXCEPT ![c] = "refreshing"]
                          /\ exchanges' = exchanges + 1
                          /\ UNCHANGED <<result, retInfo, lastOutcome>>
                     ELSE LET a == AfterRefresh(ClientClosed, token, now)
                          IN  /\ pc' = [pc EXCEPT ![c] = a.pc]
                              /\ result' = [result EXCEPT ![c] = a.value]
                              /\ retInfo' = [retInfo EXCEPT ![c] = None]
                              /\ lastOutcome' = a.pc
                              /\ UNCHANGED exchanges
  /\ UNCHANGED <<now, token, upstream, issued, menuVars, validateVars, availVars, toolVars,
                 http, closing, healthVars, lookupVars>>

\* The POST of caller c is answered; _refresh_token and the rest of
\* get_access_token run to completion without another suspension point.
ExchangeAnswered(c) ==
  /\ pc[c] = "refreshing"
  /\ \E resp \in TokenResponses(issued + 1) :
       LET a == AfterRefresh(resp, token, now)
       IN  /\ token' = a.token
           /\ pc' = [pc EXCEPT ![c] = a.pc]
           /\ result' = [result EXCEPT ![c] = a.value]
           /\ upstream' = [upstream EXCEPT ![c] = resp]
           /\ retInfo' = [retInfo EXCEPT ![c] =
                            IF a.pc = "returned"
                              THEN [at |-> now, expires_at |-> a.token.expires_at]
                              ELSE None]
           /\ lastOutcome' = a.pc
           /\ issued' = IF resp.kind = "response" /\ resp.status_code = 200
                           /\ HasTokenKeys(resp.json)
                          THEN issued + 1 ELSE issued
  /\ UNCHANGED <<now, exchanges, menuVars, extVars>>

\* the caller has consumed the outcome and may call again
Consume(c) ==
  /\ pc[c] \in {"returned", "raised"}
  /\ pc' = [pc EXCEPT ![c] = "idle"]
  /\ result' = [result EXCEPT ![c] = None]
  /\ upstream' = [upstream EXCEPT ![c] = None]
  /\ retInfo' = [retInfo EXCEPT ![c] = None]
  /\ UNCHANGED <<now, token, exchanges, issued, lastOutcome, menuVars, extVars>>

\* time passes
Tick ==
  /\ now + TickStep <= MaxTime
  /\ now' = now + TickStep
  /\ UNCHANGED <<token, pc, result, upstream, retInfo, exchanges, issued, lastOutcome,
                 menuVars, extVars>>

Next ==
  \/ \E c \in Callers : GetAccessToken(c)
  \/ \E c \in Callers : ExchangeAnswered(c)
  \/ \E c \in Callers : Consume(c)
  \/ Tick

\* callers of get_access_token running concurrently on one event loop
Spec == Init /\ [][Next]_vars

\* callers of get_access_token running one after the other: a call starts
\* only when no other call is awaiting its exchange
NextSeq ==
  \/ \E c \in Callers : /\ \A d \in Callers : pc[d] # "refreshing"
                        /\ GetAccessToken(c)
  \/ \E c \in Callers : ExchangeAnswered(c)
  \/ \E c \in Callers : Consume(c)
  \/ Tick

SpecSeq == Init /\ [][NextSeq]_vars

(***************************************************************************)
(* Claims on the token manager                                             *)
(***************************************************************************)

\* the POST of caller c ended in a non-200 status or in a transport error
ExchangeFailed(c) ==
  /\ upstream[c] # None
  /\ \/ upstream[c].kind # "response"
     \/ upstream[c].status_code # 200

\* s is one of the parts of the message
Carries(message, s) == \E i \in 1..Len(message) : message[i] = s

\* C1: while the cached token is missing or inside the 60 s margin, concurrent
\* callers of get_access_token cause exactly one credential exchange: at no
\* time are two exchanges in flight for one manager.
C1_SingleFlight ==
  Cardinality({c \in Callers : pc[c] = "refreshing"}) <= 1

\* C2: a call made while a token is cached and now + 60 < expires_at returns
\* the cached token, sends no exchange and leaves the cache unchanged; any
\* other call sends exactly one exchange (one when it starts, none when its
\* answer arrives).
C2_TokenCaching ==
  [][\A c \in Callers :
       /\ (pc[c] = "idle" /\ pc'[c] # "idle") =>
            IF token # None /\ now + 60 < token.expires_at
              THEN /\ pc'[c] = "returned"
                   /\ result'[c] = [access_token |-> token.access_token]
                   /\ exchanges' = exchanges
                   /\ token' = token
              ELSE /\ pc'[c] = "refreshing"
                   /\ exchanges' = exchanges + 1
       /\ (pc[c] = "refreshing" /\ pc'[c] # "refreshing") => exchanges' = exchanges
    ]_vars

\* a cache hit on the second token issued: one exchange, hits, one more
\* exchange after the margin was reached, and a hit again
C2_Witness ==
  /\ exchanges = 2
  /\ issued = 2
  /\ \E c \in Callers : pc[c] = "returned" /\ upstream[c] = None

\* C3: every access token returned by get_access_token satisfies
\* now + 60 < expires_at at the moment it is returned.
C3_SafetyMargin ==
  \A c \in Callers :
    pc[c] = "returned" => retInfo[c].at + 60 < retInfo[c].expires_at

\* C4: when the exchange ends in a non-200 status or a transport error, the
\* call raises, the exception of a non-200 answer carries the upstream status
\* and body, and no token (the stale one included) is returned.
C4_FailureRaises ==
  \A c \in Callers :
    ExchangeFailed(c) =>
      /\ pc[c] = "raised"
      /\ result[c].class = "Exception"
      /\ upstream[c].kind = "response" =>
           /\ Carries(result[c].message, ToString(upstream[c].status_code))
           /\ Carries(result[c].message, upstream[c].text)

\* a 401 answer while a stale token is cached: the call raised
C4_Witness ==
  \E c \in Callers :
    /\ ExchangeFailed(c)
    /\ upstream[c].kind = "response"
    /\ upstream[c].status_code = 401
    /\ token # None
    /\ pc[c] = "raised"

\* C5: a failed exchange leaves the cached token as it was; the call that
\* follows a failed one sends a new exchange; and when that exchange succeeds
\* the manager is back in the Valid state: the cache holds the token just
\* issued, expiring expires_in after now, and that token is outside the
\* safety margin.
C5_FailureNotPersisted ==
  [][\A c \in Callers :
       /\ (pc[c] = "refreshing" /\ pc'[c] = "raised") => token' = token
       /\ (lastOutcome = "raised" /\ pc[c] = "idle" /\ pc'[c] # "idle") =>
            /\ pc'[c] = "refreshing"
            /\ exchanges' = exchanges + 1
       /\ (lastOutcome = "raised" /\ pc[c] = "refreshing" /\ pc'[c] = "returned") =>
            /\ token' # None
            /\ token' # token
            /\ token'.access_token = result'[c].access_token
            /\ token'.expires_at = now + token'.expires_in
            /\ TokenUsable(token', now)
    ]_vars

(***************************************************************************)
(* Part II.  DeltaMenuClient                                               *)
(***************************************************************************)

\* ---- Python evaluation: a call either returns a value or raises ----
Ret(v) == [raised |-> FALSE, val |-> v]
Raise(e) == [raised |-> TRUE, exc |-> e]

\* an exception object of the given class
Exc(class) == [class |-> class]

\* a string built by an f-string or str(e): the sequence of its parts
Str(parts) == [text |-> parts]

\* ---- JSON values as response.json() delivers them ----
JNull == None
JStr(s) == [t |-> "str", s |-> s]
JList(l) == [t |-> "list", l |-> l]
JDict(d) == [t |-> "dict", d |-> d]
JNum(n) == [t |-> "num", n |-> n]
JBool(b) == [t |-> "bool", b |-> b]

\* Python truth value: None, "", [], {}, 0 and False are false
Truthy(v) ==
  CASE v.t = "null" -> FALSE
    [] v.t = "num"  -> v.n # 0
    [] v.t = "bool" -> v.b
    [] v.t = "str"  -> v.s # ""
    [] v.t = "list" -> Len(v.l) > 0
    [] v.t = "dict" -> DOMAIN v.d # {}

\* `k in v` for a dict v
HasKey(v, k) == k \in DOMAIN v.d

\* v.get(k, default) for a dict v
DictGet(v, k, default) == IF HasKey(v, k) THEN v.d[k] ELSE default

\* `for x in v`: the elements of a list; a TypeError for None; a non-empty
\* str or dict yields str elements (one stands for all of them: every loop
\* of the client calls .get on the first element at once)
Iter(v) ==
  CASE v.t = "list" -> Ret(v.l)
    [] v.t = "null" -> Raise(Exc("TypeError"))
    [] v.t = "str"  -> Ret(IF v.s = "" THEN <<>> ELSE <<JStr("c")>>)
    [] v.t = "dict" -> Ret(IF DOMAIN v.d = {} THEN <<>> ELSE <<JStr("key")>>)

\* ---- pydantic models of src/src/models/menu.py ----
\* A Python identifier is kept as the list of its '_'-separated components,
\* the result of to_camel as the list of the components it joins.

\* str.capitalize of the words that occur in field names
Capitalize ==
  [carrier |-> "Carrier", code |-> "Code", num |-> "Num", departure |-> "Departure",
   date |-> "Date", airport |-> "Airport", arrival |-> "Arrival", id |-> "Id",
   offer |-> "Offer", expiration |-> "Expiration", utc |-> "Utc", ts |-> "Ts",
   services |-> "Services", message |-> "Message", response |-> "Response",
   time |-> "Time", ms |-> "Ms", item |-> "Item", type |-> "Type", cd |-> "Cd",
   name |-> "Name", desc |-> "Desc", additional |-> "Additional",
   dietary |-> "Dietary", asgmts |-> "Asgmts", image |-> "Image", url |-> "Url",
   addr |-> "Addr", ssr |-> "Ssr", pre |-> "Pre", select |-> "Select",
   meal |-> "Meal", menu |-> "Menu", flight |-> "Flight", number |-> "Number",
   cabin |-> "Cabin", available |-> "Available", digital |-> "Digital",
   preselect |-> "Preselect", window |-> "Window", start |-> "Start", end |-> "End",
   local |-> "Local"]

\* to_camel: components[0] + ''.join(x.capitalize() for x in components[1:])
to_camel(components) ==
  [i \in 1..Len(components) |->
     IF i = 1 THEN components[1] ELSE Capitalize[components[i]]]

\* a model field: its name, whether it is required (Field(...)), its default
ModelField(name, required, default) ==
  [name |-> name, required |-> required, default |-> default]

\* class FlightMenuResponse(BaseModel), model_config = ConfigDict(alias_generator=to_camel)
FlightMenuResponseFields ==
  << ModelField(<<"operating", "carrier", "code">>, TRUE, None),
     ModelField(<<"flight", "num">>, TRUE, None),
     ModelField(<<"flight", "departure", "date">>, TRUE, None),
     ModelField(<<"flight", "departure", "airport", "code">>, TRUE, None),
     ModelField(<<"flight", "arrival", "date">>, FALSE, None),
     ModelField(<<"flight", "arrival", "airport", "code">>, FALSE, None),
     ModelField(<<"segment", "id">>, FALSE, None),
     ModelField(<<"flight", "offer", "expiration", "utc", "ts">>, FALSE, None),
     ModelField(<<"menu", "services">>, FALSE, <<>>),
     ModelField(<<"success">>, FALSE, TRUE),
     ModelField(<<"error", "message">>, FALSE, None),
     ModelField(<<"api", "response", "time", "ms">>, FALSE, None) >>

\* class MenuItem(BaseModel), same alias generator; the fields the client
\* could populate, all Optional with default None (dietary list: [])
MenuItemFields ==
  << ModelField(<<"menu", "item", "id">>, FALSE, None),
     ModelField(<<"menu", "item", "type", "cd">>, FALSE, None),
     ModelField(<<"menu", "item", "type", "name">>, FALSE, None),
     ModelField(<<"menu", "item", "desc">>, FALSE, None),
     ModelField(<<"menu", "item", "additional", "desc">>, FALSE, None),
     ModelField(<<"menu", "item", "image", "url", "addr">>, FALSE, None),
     ModelField(<<"menu", "item", "dietary", "asgmts">>, FALSE, <<>>),
     ModelField(<<"ssr", "code">>, FALSE, None),
     ModelField(<<"pre", "select", "meal">>, FALSE, None) >>

\* BaseModel.__init__(**kw) of a model whose fields are aliased by to_camel
\* and that does not set populate_by_name: a field is read from the keyword
\* equal to its alias, keywords that are no alias are ignored, a required
\* field without its keyword makes the call raise ValidationError.
BaseModelInit(model, fields, kw) ==
  LET idx == 1..Len(fields)
      missing == {i \in idx : fields[i].required /\ to_camel(fields[i].name) \notin DOMAIN kw}
  IN  IF missing # {}
        THEN Raise([class |-> "ValidationError", model |-> model,
                    missing |-> {to_camel(fields[i].name) : i \in missing}])
        ELSE Ret([model |-> model,
                  fields |-> [n \in {fields[i].name : i \in idx} |->
                                LET i == CHOOSE j \in idx : fields[j].name = n
                                IN  IF to_camel(n) \in DOMAIN kw THEN kw[to_camel(n)]
                                                                 ELSE fields[i].default]])

FlightMenuResponse(kw) == BaseModelInit("FlightMenuResponse", FlightMenuResponseFields, kw)

MenuItem(kw) == BaseModelInit("MenuItem", MenuItemFields, kw)

\* CabinMenu is imported by delta_client.py from models.menu, which does not
\* define it: the value object of one cabin's menu service, holding what
\* _parse_cabin_menu passes to it
CabinMenu(cabin_code, cabin_name, menu_items, service_time, special_notes) ==
  [cabin_code |-> cabin_code, cabin_name |-> cabin_name, menu_items |-> menu_items,
   service_time |-> service_time, special_notes |-> special_notes]

\* ---- the normalizer ----

\* a str default passed to dict.get
UnknownItem == JStr("Unknown Item")
General == JStr("General")
Unknown == JStr("Unknown")

\* _parse_menu_item: any exception inside it gives None
parse_menu_item(item_data) ==
  IF item_data.t # "dict" THEN None
  ELSE
    LET asg == Iter(DictGet(item_data, "menuItemDietaryAsgmts", JList(<<>>)))
    IN  IF asg.raised THEN None
        ELSE IF \E i \in 1..Len(asg.val) : asg.val[i].t # "dict" THEN None
        ELSE
          LET HasDesc(d) == Truthy(DictGet(d, "menuItemDietaryDesc", None))
              kept == SelectSeq(asg.val, HasDesc)
              dietary_info == [i \in 1..Len(kept) |-> DictGet(kept[i], "menuItemDietaryDesc", None)]
              m == MenuItem(   (<<"name">> :> DictGet(item_data, "menuItemDesc", UnknownItem))
                            @@ (<<"description">> :> DictGet(item_data, "menuItemAdditionalDesc", None))
                            @@ (<<"category">> :> DictGet(item_data, "menuItemTypeName", General))
                            @@ (<<"dietary", "info">> :> dietary_info)
                            @@ (<<"allergens">> :> <<>>)
                            @@ (<<"image", "url">> :> None))
          IN  IF m.raised THEN None ELSE m.val

NotNone(x) == x # None

\* the two nested loops of _parse_cabin_menu over menus and their menuItems:
\* the items parsed, or the exception that ends the loops
RECURSIVE MenuItemsOf(_)
MenuItemsOf(menus) ==
  IF Len(menus) = 0 THEN Ret(<<>>)
  ELSE
    LET menu_data == Head(menus)
    IN  IF menu_data.t # "dict" THEN Raise(Exc("AttributeError"))
        ELSE
          LET it == Iter(DictGet(menu_data, "menuItems", JList(<<>>)))
          IN  IF it.raised THEN it
              ELSE
                LET parsed == [i \in 1..Len(it.val) |-> parse_menu_item(it.val[i])]
                    rest == MenuItemsOf(Tail(menus))
                IN  IF rest.raised THEN rest
                    ELSE Ret(SelectSeq(parsed, NotNone) \o rest.val)

\* _parse_cabin_menu: None for a cabin without items and for any exception
parse_cabin_menu(menu_service_data) ==
  IF menu_service_data.t # "dict" THEN None
  ELSE
    LET cabin_code == DictGet(menu_service_data, "cabinTypeCode", Unknown)
        cabin_name == DictGet(menu_service_data, "cabinTypeDesc", cabin_code)
        menus == Iter(DictGet(menu_service_data, "menus", JList(<<>>)))
    IN  IF menus.raised THEN None
        ELSE
          LET menu_items == MenuItemsOf(menus.val)
          IN  IF menu_items.raised THEN None
              ELSE IF Len(menu_items.val) = 0 THEN None
              ELSE CabinMenu(cabin_code, cabin_name, menu_items.val,
                             DictGet(menu_service_data, "primaryMenuServiceTypeDesc", None),
                             DictGet(menu_service_data, "cabinWelcomeMessage", None))

\* the keywords every FlightMenuResponse(...) call of the client passes
RequestKw(request) ==
     (<<"carrier", "code">> :> request.operating_carrier)
  @@ (<<"flight", "number">> :> request.flight_number)
  @@ (<<"departure", "date">> :> request.departure_date)
  @@ (<<"departure", "airport">> :> request.departure_airport)

\* keywords of a failure response with api_response_time_ms
FailureKw(request, error_message, response_time_ms) ==
     RequestKw(request)
  @@ (<<"success">> :> FALSE)
  @@ (<<"error", "message">> :> error_message)
  @@ (<<"api", "response", "time", "ms">> :> response_time_ms)

\* keywords of the failure response of `except Exception` in get_menu_by_flight
FailureKwNoTime(request, error_message) ==
     RequestKw(request)
  @@ (<<"success">> :> FALSE)
  @@ (<<"error", "message">> :> error_message)

\* keywords of the success response of _parse_api_response
SuccessKw(request, arrival_airport, cabins, response_time_ms) ==
     RequestKw(request)
  @@ (<<"arrival", "airport">> :> arrival_airport)
  @@ (<<"cabins">> :> cabins)
  @@ (<<"success">> :> TRUE)
  @@ (<<"api", "response", "time", "ms">> :> response_time_ms)

EmptyOrInvalid == Str(<<"Empty or invalid response from API">>)

\* the try block of _parse_api_response
ParseBody(data, request, response_time_ms) ==
  IF ~Truthy(data)
    THEN FlightMenuResponse(FailureKw(request, EmptyOrInvalid, response_time_ms))
  ELSE IF data.t # "dict" THEN Raise(Exc("AttributeError"))
  ELSE IF ~Truthy(DictGet(data, "flightMenus", None))
    THEN FlightMenuResponse(FailureKw(request,
                                      IF HasKey(data, "error") THEN data.d.error
                                                               ELSE EmptyOrInvalid,
                                      response_time_ms))
  ELSE
    LET flightMenus == data.d.flightMenus
    IN  IF flightMenus.t = "dict" THEN Raise(Exc("KeyError"))
        ELSE IF flightMenus.t = "str" THEN Raise(Exc("AttributeError"))
        ELSE
          LET flight_menu_data == flightMenus.l[1]
          IN  IF flight_menu_data.t # "dict" THEN Raise(Exc("AttributeError"))
              ELSE
                LET arrival_airport == DictGet(flight_menu_data, "flightArrivalAirportCode", None)
                    services == Iter(DictGet(flight_menu_data, "menuServices", JList(<<>>)))
                IN  IF services.raised THEN services
                    ELSE
                      LET parsed == [i \in 1..Len(services.val) |->
                                       parse_cabin_menu(services.val[i])]
                          cabins == SelectSeq(parsed, NotNone)
                      IN  FlightMenuResponse(SuccessKw(request, arrival_airport, cabins,
                                                       response_time_ms))

\* _parse_api_response: the try block and its two handlers; an exception
\* raised while a handler builds its response leaves the function
parse_api_response(data, request, response_time_ms) ==
  LET b == ParseBody(data, request, response_time_ms)
  IN  IF ~b.raised THEN b
      ELSE IF b.exc.class \in {"KeyError", "IndexError"}
        THEN FlightMenuResponse(FailureKw(request,
               Str(<<"Failed to parse response due to missing key: ", b.exc.class>>),
               response_time_ms))
      ELSE FlightMenuResponse(FailureKw(request,
               Str(<<"An unexpected error occurred during parsing: ", b.exc.class>>),
               response_time_ms))

\* ---- get_menu_by_flight ----

\* a MenuQueryRequest (src/src/models/requests.py): it declares no cabin_code
MenuQueryRequest(departure_date, flight_number, departure_airport, operating_carrier, lang_cd) ==
  [departure_date |-> departure_date, flight_number |-> flight_number,
   departure_airport |-> departure_airport, operating_carrier |-> operating_carrier,
   lang_cd |-> lang_cd]

\* The request objects a caller passes: a MenuQueryRequest, and an object
\* that has the attributes of one and a cabin_code besides.
Requests ==
  { MenuQueryRequest("2025-09-30", 1110, "ATL", "DL", "en-US"),
    [departure_date |-> "2025-09-30", flight_number |-> 1110, departure_airport |-> "ATL",
     operating_carrier |-> "DL", lang_cd |-> "en-US", cabin_code |-> "C"] }

\* upstream JSON of the menu endpoint used as inputs
ItemJson(desc) == JDict([menuItemDesc |-> JStr(desc), menuItemTypeName |-> JStr("Entree")])
MenuJson(items) == JDict([menuServiceTypeDesc |-> JStr("Dinner"), menuItems |-> JList(items)])
ServiceJson(code, menus) == JDict([cabinTypeCode |-> JStr(code), menus |-> JList(menus)])

ServiceC == ServiceJson("C", <<MenuJson(<<ItemJson("Beef"), ItemJson("Pasta")>>)>>)
ServiceW == ServiceJson("W", <<MenuJson(<<ItemJson("Salad")>>)>>)
\* a cabin whose menus carry no items
ServiceNoItems == ServiceJson("Y", <<MenuJson(<<>>)>>)
\* a cabin that cannot be parsed: "menus" is null
ServiceBroken == JDict([cabinTypeCode |-> JStr("F"), menus |-> None])

EntryJson(services) == JDict([flightArrivalAirportCode |-> JStr("LAX"),
                              menuServices |-> JList(services)])

\* 200 answers that say "there is no menu": an empty flight-menu collection,
\* an entry without cabins, an entry whose cabins have no items
NoMenuPayloads ==
  { JDict([flightMenus |-> JList(<<>>)]),
    JDict([flightMenus |-> JList(<<JDict([flightArrivalAirportCode |-> JStr("LAX")])>>)]),
    JDict([flightMenus |-> JList(<<EntryJson(<<>>)>>)]),
    JDict([flightMenus |-> JList(<<EntryJson(<<ServiceNoItems>>)>>)]) }

\* 200 answers with menus
MenuPayloads ==
  { JDict([flightMenus |-> JList(<<EntryJson(<<ServiceC, ServiceW>>)>>)]),
    JDict([flightMenus |-> JList(<<EntryJson(<<ServiceC>>), EntryJson(<<ServiceW>>)>>)]) }

\* 200 answers with two flight-menu entries that differ in arrival airport
\* and in cabins
TwoEntryPayloads ==
  { JDict([flightMenus |-> JList(<<
      JDict([flightArrivalAirportCode |-> JStr("LAX"), menuServices |-> JList(<<ServiceC>>)]),
      JDict([flightArrivalAirportCode |-> JStr("JFK"),
             menuServices |-> JList(<<ServiceW, ServiceC>>)])>>)]) }

\* well-formed 200 answers in which fields are absent: a cabin without code
\* and description, an item without any field, a menu without items next to
\* one with an item, an entry without arrival airport
SparsePayloads ==
  { JDict([flightMenus |-> JList(<<EntryJson(<<
      JDict([menus |-> JList(<<MenuJson(<<ItemJson("Beef")>>)>>)])>>)>>)]),
    JDict([flightMenus |-> JList(<<JDict([menuServices |-> JList(<<
      ServiceJson("C", <<JDict(<<>>), MenuJson(<<JDict(<<>>)>>)>>)>>)])>>)]) }

\* 200 answers with a cabin that cannot be parsed
BrokenCabinPayloads ==
  { JDict([flightMenus |-> JList(<<EntryJson(<<ServiceC, ServiceBroken>>)>>)]) }

\* 200 answers whose payload is not the expected shape
MalformedPayloads ==
  { None,
    JDict(<<>>),
    JList(<<JStr("x")>>),
    JDict([error |-> JStr("upstream error")]),
    JDict([flightMenus |-> JDict([a |-> JStr("b")])]),
    JDict([flightMenus |-> JList(<<None>>)]),
    JDict([flightMenus |-> JList(<<JDict([menuServices |-> None])>>)]) }

\* response.json() of a body that is not JSON raises
NotJson == [t |-> "notjson"]

MenuFailStatuses == {204, 404, 500}
MenuFailBodies == {"upstream body"}

\* what `await self.client.get(...)` can produce
MenuAnswers ==
       { [kind |-> "response", status_code |-> 200, text |-> "json", json |-> j]
           : j \in NoMenuPayloads \cup MenuPayloads \cup TwoEntryPayloads
                   \cup SparsePayloads \cup BrokenCabinPayloads \cup MalformedPayloads }
  \cup { [kind |-> "response", status_code |-> 200, text |-> "<html>", json |-> NotJson] }
  \cup { [kind |-> "response", status_code |-> st, text |-> b, json |-> NotJson]
           : st \in MenuFailStatuses, b \in MenuFailBodies }
  \cup { [kind |-> "TimeoutException"], [kind |-> "ConnectError"] }

\* values of int((time.time() - start_time) * 1000)
ElapsedMs == {120, 30000}

\* the handlers of get_menu_by_flight applied to the outcome of its try
\* block; an exception raised while a handler builds its response leaves
\* the function
MenuHandlers(body, request) ==
  IF ~body.raised THEN body
  ELSE IF body.exc.class = "TimeoutException"
    THEN FlightMenuResponse(FailureKw(request, Str(<<"Request timed out">>), 30000))
  ELSE FlightMenuResponse(FailureKwNoTime(request, Str(<<body.exc.class>>)))

\* get_menu_by_flight up to the GET: `if request.cabin_code:` raises
\* AttributeError for an object without that attribute
BeforeGet(request) ==
  IF "cabin_code" \in DOMAIN request THEN Ret(None)
                                      ELSE Raise(Exc("AttributeError"))

\* get_menu_by_flight from the answer of the GET on
AfterGet(request, answer, response_time_ms) ==
  MenuHandlers(
    IF answer.kind # "response" THEN Raise(Exc(answer.kind))
    ELSE IF answer.status_code = 200
      THEN IF answer.json = NotJson
             THEN Raise(Exc("JSONDecodeError"))
             ELSE parse_api_response(answer.json, request, response_time_ms)
    ELSE FlightMenuResponse(FailureKw(request,
           Str(<<"API returned status code ", ToString(answer.status_code)>>),
           response_time_ms)),
    request)

\* MenuCall asking the token manager for a bearer token before its GET
MenuCall_Authenticated(c) ==
  /\ mpc[c] = "idle"
  /\ \E request \in Requests :
       /\ mreq' = [mreq EXCEPT ![c] = request]
       /\ mpc' = [mpc EXCEPT ![c] = "awaiting"]
       /\ msent' = [msent EXCEPT ![c] = msent[c] + 1]
       /\ exchanges' = IF TokenUsable(token, now) THEN exchanges ELSE exchanges + 1
       /\ token' = IF TokenUsable(token, now)
                     THEN token
                     ELSE OAuthToken(issued + 1, "Bearer", 120, now + 120)
       /\ issued' = IF TokenUsable(token, now) THEN issued ELSE issued + 1
  /\ UNCHANGED <<now, pc, result, upstream, retInfo, lastOutcome, mup, mout, extVars>>

\* get_menu_by_flight is called: it runs to the GET, or ends before it; on
\* a closed transport the GET raises at once
MenuCall(c) ==
  /\ mpc[c] = "idle"
  /\ \E request \in Requests :
       /\ mreq' = [mreq EXCEPT ![c] = request]
       /\ IF BeforeGet(request).raised
            THEN /\ mpc' = [mpc EXCEPT ![c] = "done"]
                 /\ mout' = [mout EXCEPT ![c] = MenuHandlers(BeforeGet(request), request)]
                 /\ UNCHANGED <<msent, http>>
            ELSE LET s == send(http)
                 IN  /\ http' = s.client
                     /\ IF s.sent
                          THEN /\ mpc' = [mpc EXCEPT ![c] = "awaiting"]
                               /\ msent' = [msent EXCEPT ![c] = msent[c] + 1]
                               /\ UNCHANGED mout
                          ELSE /\ mpc' = [mpc EXCEPT ![c] = "done"]
                               /\ mout' = [mout EXCEPT ![c] =
                                             MenuHandlers(Raise(Exc(ClientClosed.kind)),
                                                          request)]
                               /\ UNCHANGED msent
  /\ UNCHANGED <<mup, oauthVars, validateVars, availVars, toolVars, oauthHttp, closing,
                 healthVars, lookupVars>>

(***************************************************************************)
(* Claims on get_menu_by_flight                                            *)
(***************************************************************************)

\* the call of caller c has ended by returning a FlightMenuResponse
MenuReturned(c) == mpc[c] = "done" /\ ~mout[c].raised

\* field n of the FlightMenuResponse returned to caller c
MenuField(c, n) == mout[c].val.fields[n]

\* the GET of caller c was answered with a status outside 200..299
NonSuccessStatus(c) ==
  /\ msent[c] = 1
  /\ mup[c].kind = "response"
  /\ mup[c].status_code \notin 200..299

\* the GET of caller c failed: transport error, status outside 2xx, a body
\* or payload that cannot be parsed, a cabin that cannot be parsed
MenuCallFailed(c) ==
  /\ msent[c] = 1
  /\ \/ mup[c].kind # "response"
     \/ mup[c].status_code \notin 200..299
     \/ /\ mup[c].status_code = 200
        /\ \/ mup[c].json = NotJson
           \/ mup[c].json \in MalformedPayloads \cup BrokenCabinPayloads

\* the GET of caller c was answered 200 with a payload holding no menus
NoMenuData(c) ==
  /\ msent[c] = 1
  /\ mup[c].kind = "response"
  /\ mup[c].status_code = 200
  /\ mup[c].json \in NoMenuPayloads

\* C6: every FlightMenu value a call returns is in one of its two states:
\* success without errorMessage, or failure with an empty menuServices list
\* and an errorMessage.
C6_FlightMenuInvariant ==
  \A c \in Callers :
    MenuReturned(c) =>
      \/ /\ MenuField(c, <<"success">>) = TRUE
         /\ MenuField(c, <<"error", "message">>) = None
      \/ /\ MenuField(c, <<"success">>) = FALSE
         /\ Len(MenuField(c, <<"menu", "services">>)) = 0
         /\ MenuField(c, <<"error", "message">>) # None

\* a call has returned a FlightMenu value
C6_ValueReturned == \E c \in Callers : MenuReturned(c)

\* C7: get_menu_by_flight never raises to its caller.
C7_NeverRaises ==
  \A c \in Callers : mpc[c] = "done" => ~mout[c].raised

\* C8: a menu GET that exceeds its deadline ends in the timeout outcome (a
\* returned failure whose message is the timeout message), which no other
\* failure produces.
C8_TimeoutClassified ==
  \A c \in Callers :
    (mpc[c] = "done" /\ msent[c] = 1 /\ mup[c].kind = "TimeoutException") =>
      /\ MenuReturned(c)
      /\ MenuField(c, <<"success">>) = FALSE
      /\ MenuField(c, <<"error", "message">>) = Str(<<"Request timed out">>)
      /\ \A d \in Callers :
           (mpc[d] = "done" /\ MenuCallFailed(d) /\ mup[d].kind # "TimeoutException") =>
             mout[d] # mout[c]

\* C9: for every status outside 2xx the call ends in a failure value that
\* carries the upstream status and the upstream body.
C9_StatusAndBodyCarried ==
  \A c \in Callers :
    (mpc[c] = "done" /\ NonSuccessStatus(c)) =>
      /\ MenuReturned(c)
      /\ MenuField(c, <<"success">>) = FALSE
      /\ MenuField(c, <<"error", "message">>) # None
      /\ Carries(MenuField(c, <<"error", "message">>).text, ToString(mup[c].status_code))
      /\ Carries(MenuField(c, <<"error", "message">>).text, mup[c].text)

\* C10: a 200 answer without menus ends as a success with an empty result,
\* and a failed call never ends as a success.
C10_NoDataIsNotFailure ==
  \A c \in Callers :
    mpc[c] = "done" =>
      /\ NoMenuData(c) =>
           /\ MenuReturned(c)
           /\ MenuField(c, <<"success">>) = TRUE
           /\ Len(MenuField(c, <<"menu", "services">>)) = 0
      /\ MenuCallFailed(c) =>
           ~(MenuReturned(c) /\ MenuField(c, <<"success">>) = TRUE)

(***************************************************************************)
(* Claims on the normalizer, observed through get_menu_by_flight           *)
(***************************************************************************)

\* the GET of caller c was answered 200 with the JSON payload its call parsed
Answered200(c) ==
  /\ mpc[c] = "done"
  /\ msent[c] = 1
  /\ mup[c].kind = "response"
  /\ mup[c].status_code = 200
  /\ mup[c].json # NotJson

\* str.upper of a cabin code
UpperCode == [c |-> "C", f |-> "F", w |-> "W", y |-> "Y",
              C |-> "C", F |-> "F", W |-> "W", Y |-> "Y"]

\* the cabin codes the request of caller c asks for
RequestedCodes(c) ==
  IF "cabin_code" \in DOMAIN mreq[c] THEN {UpperCode[mreq[c].cabin_code]} ELSE {}

\* the menu services of the first flight-menu entry of a payload
FirstEntryServices(json) == DictGet(json.d.flightMenus.l[1], "menuServices", JList(<<>>)).l

\* the cabin codes of the upstream services that the request retains, in
\* upstream order
RetainedCodes(c) ==
  LET services == FirstEntryServices(mup[c].json)
      codes == [i \in 1..Len(services) |-> services[i].d.cabinTypeCode.s]
      Wanted(code) == RequestedCodes(c) = {} \/ UpperCode[code] \in RequestedCodes(c)
  IN  SelectSeq(codes, Wanted)

\* C11: for a payload with menus, the returned FlightMenu is a success whose
\* menu services are exactly the upstream services whose cabin code matches
\* a requested code without regard to case, in upstream order; all of them
\* when no code is requested.
C11_CabinFiltering ==
  \A c \in Callers :
    (Answered200(c) /\ mup[c].json \in MenuPayloads) =>
      /\ MenuReturned(c)
      /\ MenuField(c, <<"success">>) = TRUE
      /\ LET services == MenuField(c, <<"menu", "services">>)
         IN  [i \in 1..Len(services) |-> services[i].cabin_code.s] = RetainedCodes(c)

\* the payload is a dict without a non-empty flight-menu collection
LacksFlightMenus(json) ==
  /\ json.t = "dict"
  /\ \/ ~HasKey(json, "flightMenus")
     \/ json.d.flightMenus = JList(<<>>)

\* C12: a payload that is {} or lacks a non-empty flight-menu collection is
\* normalized to a returned FlightMenu with success = false whose
\* errorMessage is the payload's error field when it has one and the generic
\* empty-or-invalid message otherwise.
C12_EmptyPayloadIsFailureValue ==
  \A c \in Callers :
    (Answered200(c) /\ LacksFlightMenus(mup[c].json)) =>
      /\ MenuReturned(c)
      /\ MenuField(c, <<"success">>) = FALSE
      /\ MenuField(c, <<"error", "message">>) # None
      /\ MenuField(c, <<"error", "message">>) =
           IF HasKey(mup[c].json, "error") THEN mup[c].json.d.error ELSE EmptyOrInvalid

\* the payload holds one flight-menu entry, and that entry holds no cabin
OneEntryNoCabins(json) ==
  /\ json.t = "dict"
  /\ HasKey(json, "flightMenus")
  /\ json.d.flightMenus.t = "list"
  /\ Len(json.d.flightMenus.l) = 1
  /\ json.d.flightMenus.l[1].t = "dict"
  /\ DictGet(json.d.flightMenus.l[1], "menuServices", JList(<<>>)) = JList(<<>>)

\* C13: a well-formed payload with one flight-menu entry and no cabins is
\* normalized to a returned FlightMenu with success = true and an empty
\* menuServices list.
C13_MinimalPayloadIsSuccess ==
  \A c \in Callers :
    (Answered200(c) /\ OneEntryNoCabins(mup[c].json)) =>
      /\ MenuReturned(c)
      /\ MenuField(c, <<"success">>) = TRUE
      /\ MenuField(c, <<"menu", "services">>) = <<>>

(***************************************************************************)
(* Part III.  The request validator                                        *)
(*                                                                         *)
(* src/ holds the declaration of the validator's result                    *)
(* (FlightRequestValidation and its parts, requests.py) and references to  *)
(* the validate_flight_request tool (debug_tools.py); the function itself  *)
(* is not there.  Its rules are the five rules of the specification's      *)
(* section 4.2.                                                            *)
(***************************************************************************)

\* ---- datetime.date ----
date(year, month, day) == [year |-> year, month |-> month, day |-> day]

IsLeap(year) == year % 4 = 0 /\ (year % 100 # 0 \/ year % 400 = 0)

DaysInMonth(year, month) ==
  IF month = 2 THEN (IF IsLeap(year) THEN 29 ELSE 28)
  ELSE IF month \in {4, 6, 9, 11} THEN 30 ELSE 31

RECURSIVE DaysBeforeMonth(_, _)
DaysBeforeMonth(year, month) ==
  IF month = 1 THEN 0
  ELSE DaysBeforeMonth(year, month - 1) + DaysInMonth(year, month - 1)

\* date.toordinal: the day number that date comparison and date + timedelta
\* work on
toordinal(d) ==
  LET y == d.year - 1
  IN  y * 365 + (y \div 4) - (y \div 100) + (y \div 400)
        + DaysBeforeMonth(d.year, d.month) + d.day

\* date.isoformat, as the parts of the string
isoformat(d) == Str(<<d.year, "-", d.month, "-", d.day>>)

\* ---- character classes of the codes used as inputs ----
UpperLetters == {"A", "D", "L", "T"}
LowerLetters == {"a", "d", "l", "t"}
Digits == {"1"}

\* str.isalpha of a string given as the sequence of its characters
isalpha(s) == Len(s) > 0 /\ \A i \in 1..Len(s) : s[i] \in UpperLetters \cup LowerLetters

\* ---- the result types, src/src/models/requests.py ----
ValidationParameters(flight_departure_date, flight_number, flight_departure_airport, operating_carrier) ==
  [flight_departure_date |-> flight_departure_date, flight_number |-> flight_number,
   flight_departure_airport |-> flight_departure_airport,
   operating_carrier |-> operating_carrier]

ValidationNextSteps ==
  [valid |-> "Ready to make API call",
   invalid |-> "Please fix the issues above before proceeding"]

FlightRequestValidation(is_valid, issues, recommendations, parameters, next_steps) ==
  [tool |-> "request_validation", is_valid |-> is_valid, issues |-> issues,
   recommendations |-> recommendations, parameters |-> parameters,
   next_steps |-> next_steps]

\* ---- the five rules ----
MaxDaysAhead == 365
MaxFlightNumber == 9999
AirportCodeLength == 3
CarrierCodeLength == 2

PastDate(query, today) == toordinal(query.departure_date) < toordinal(today)

\* TooFarAhead firing from the 365th day on
TooFarAhead_From365(query, today) ==
  toordinal(query.departure_date) >= toordinal(today) + MaxDaysAhead

TooFarAhead(query, today) ==
  toordinal(query.departure_date) > toordinal(today) + MaxDaysAhead

\* FlightNumberTooLarge firing from 9999 on
FlightNumberTooLarge_From9999(query) == query.flight_number >= MaxFlightNumber

FlightNumberTooLarge(query) == query.flight_number > MaxFlightNumber

BadAirport(query) ==
  ~(Len(query.departure_airport) = AirportCodeLength /\ isalpha(query.departure_airport))

BadCarrier(query) ==
  ~(Len(query.operating_carrier) = CarrierCodeLength /\ isalpha(query.operating_carrier))

\* a rule: the issue and the recommendation it appends when violated
Rule(violated, issue) ==
  IF violated THEN <<[issue |-> issue, recommendation |-> <<"fix", issue>>]>> ELSE <<>>

\* what the five rules append, in rule order
Findings(query, today) ==
     Rule(PastDate(query, today), "past date")
  \o Rule(TooFarAhead(query, today), "too far ahead")
  \o Rule(FlightNumberTooLarge(query), "flight number")
  \o Rule(BadAirport(query), "airport code")
  \o Rule(BadCarrier(query), "carrier code")

\* the result built from the findings
ValidationOf(query, found) ==
  FlightRequestValidation(
    Len(found) = 0,
    [i \in 1..Len(found) |-> found[i].issue],
    [i \in 1..Len(found) |-> found[i].recommendation],
    ValidationParameters(isoformat(query.departure_date), query.flight_number,
                         query.departure_airport, query.operating_carrier),
    ValidationNextSteps)

\* validate stopping at the first violated rule
validate_ShortCircuit(query, today) ==
  ValidationOf(query, SubSeq(Findings(query, today), 1, 1))

\* validate(query): every rule is evaluated, isValid = (issues is empty)
validate(query, today) == ValidationOf(query, Findings(query, today))

\* ---- inputs ----
Todays == {date(2026, 10, 31), date(2027, 10, 31)}

\* around both todays: the day before, the day, 365 and 366 days later
\* (2028 is a leap year)
Dates ==
  { date(2026, 10, 30), date(2026, 10, 31), date(2027, 10, 30), date(2027, 10, 31),
    date(2027, 11, 1), date(2028, 2, 29), date(2028, 10, 30), date(2028, 10, 31) }

FlightNumbers == {-1, 0, 1, 1110, 9999, 10000}

AirportCodes ==
  { <<"A", "T", "L">>, <<"a", "t", "l">>, <<"A", "T">>, <<"A", "T", "L", "A">>,
    <<"A", "1", "L">>, <<>> }

CarrierCodes ==
  { <<"D", "L">>, <<"d", "l">>, <<"D">>, <<"D", "L", "A">>, <<"D", "1">> }

\* a query as the caller hands it to validate
MenuQuery(departure_date, flight_number, departure_airport, operating_carrier) ==
  [departure_date |-> departure_date, flight_number |-> flight_number,
   departure_airport |-> departure_airport, operating_carrier |-> operating_carrier]

Queries ==
  { MenuQuery(d, n, a, k) : d \in Dates, n \in FlightNumbers, a \in AirportCodes,
                            k \in CarrierCodes }

\* a caller validates a query
Validate ==
  /\ vresult = None
  /\ \E query \in Queries, today \in Todays :
       /\ vtoday' = today
       /\ vquery' = query
       /\ vresult' = validate(query, today)
  /\ UNCHANGED <<oauthVars, menuVars, availVars, toolVars, transportVars, healthVars,
                 lookupVars>>

\* the caller has consumed the result
ValidateConsume ==
  /\ vresult # None
  /\ vtoday' = None
  /\ vquery' = None
  /\ vresult' = None
  /\ UNCHANGED <<oauthVars, menuVars, availVars, toolVars, transportVars, healthVars,
                 lookupVars>>

NextValidate ==
  \/ Validate
  \/ ValidateConsume

SpecValidate == Init /\ [][NextValidate]_vars

(***************************************************************************)
(* Claims on the validator                                                 *)
(***************************************************************************)

Validated == vresult # None

\* day offset of the validated date from today
DaysFromToday == toordinal(vquery.departure_date) - toordinal(vtoday)

IsLetters(s, n) == Len(s) = n /\ \A i \in 1..n : s[i] \in UpperLetters \cup LowerLetters
IsUpperLetters(s, n) == Len(s) = n /\ \A i \in 1..n : s[i] \in UpperLetters

\* the rules the validated query violates, in rule order
ViolatedRules ==
  LET Violates(rule) ==
        CASE rule = "past date" -> DaysFromToday < 0
          [] rule = "too far ahead" -> DaysFromToday > 365
          [] rule = "flight number" -> vquery.flight_number > 9999
          [] rule = "airport code" -> ~IsLetters(vquery.departure_airport, 3)
          [] rule = "carrier code" -> ~IsLetters(vquery.operating_carrier, 2)
  IN  SelectSeq(<<"past date", "too far ahead", "flight number", "airport code",
                  "carrier code">>, Violates)

\* C14: a query that violates none of the five rules is valid, with no
\* issue and no recommendation.
C14_ValidQueryAccepted ==
  (Validated /\ ViolatedRules = <<>>) =>
    /\ vresult.is_valid = TRUE
    /\ vresult.issues = <<>>
    /\ vresult.recommendations = <<>>

\* a valid query of today's date, 365 days ahead at most
C14_Witness ==
  /\ Validated
  /\ ViolatedRules = <<>>
  /\ DaysFromToday = 0
  /\ vresult.is_valid

\* C15: validate returns a result for every query; its issues are exactly
\* the issues of the violated rules, one each; there are as many
\* recommendations as issues; isValid holds exactly when there is no issue.
C15_AllRulesChecked ==
  Validated =>
    /\ vresult.issues = ViolatedRules
    /\ Len(vresult.recommendations) = Len(vresult.issues)
    /\ vresult.is_valid = (vresult.issues = <<>>)

\* a date one day in the past together with three other violations
C15_Witness ==
  /\ Validated
  /\ DaysFromToday = -1
  /\ vresult.issues = <<"past date", "flight number", "airport code", "carrier code">>
  /\ ~vresult.is_valid

DateIssues == {i \in 1..Len(vresult.issues) : vresult.issues[i] \in {"past date", "too far ahead"}}

\* C16: today and today + 365 raise no date issue, today - 1 raises the
\* past-date issue, today + 366 the too-far-ahead issue, and no query raises
\* both.
C16_DateWindow ==
  Validated =>
    /\ DaysFromToday \in {0, 365} => DateIssues = {}
    /\ DaysFromToday = -1 => \E i \in DateIssues : vresult.issues[i] = "past date"
    /\ DaysFromToday = 366 => \E i \in DateIssues : vresult.issues[i] = "too far ahead"
    /\ Cardinality(DateIssues) <= 1

\* the last day of the window, across a leap day: accepted
C16_Witness ==
  /\ Validated
  /\ vtoday = date(2027, 10, 31)
  /\ vquery.departure_date = date(2028, 10, 30)
  /\ DaysFromToday = 365
  /\ DateIssues = {}

\* C17: a valid query has a flight number in 1..9999, an airport
\* code of 3 uppercase letters and a carrier code of 2 uppercase letters.
C17_ValidMeetsDataModel ==
  (Validated /\ vresult.is_valid) =>
    /\ vquery.flight_number \in 1..9999
    /\ IsUpperLetters(vquery.departure_airport, 3)
    /\ IsUpperLetters(vquery.operating_carrier, 2)

(***************************************************************************)
(* Part IV.  DeltaMenuClient.check_menu_availability                       *)
(***************************************************************************)

\* ---- the models of the availability endpoint, src/src/models/menu.py ----

\* class FlightLeg(BaseModel), model_config = ConfigDict(alias_generator=to_camel)
FlightLegFields ==
  << ModelField(<<"operating", "carrier", "code">>, TRUE, None),
     ModelField(<<"flight", "num">>, TRUE, None),
     ModelField(<<"flight", "departure", "airport", "code">>, TRUE, None),
     ModelField(<<"departure", "local", "date">>, TRUE, None) >>

\* FlightLeg populated by field name
FlightLeg_ByName(kw) == Ret([model |-> "FlightLeg", fields |-> kw])

FlightLeg(kw) == BaseModelInit("FlightLeg", FlightLegFields, kw)

\* class CabinAvailability(BaseModel), same alias generator, every field
\* Optional with default None
CabinAvailabilityFields ==
  << ModelField(<<"cabin", "type", "code">>, FALSE, None),
     ModelField(<<"cabin", "type", "desc">>, FALSE, None),
     ModelField(<<"pre", "select", "menu", "available">>, FALSE, None),
     ModelField(<<"digital", "menu", "available">>, FALSE, None),
     ModelField(<<"cabin", "preselect", "window", "start", "utc", "ts">>, FALSE, None),
     ModelField(<<"cabin", "preselect", "window", "end", "utc", "ts">>, FALSE, None) >>

CabinAvailability(kw) == BaseModelInit("CabinAvailability", CabinAvailabilityFields, kw)

\* int(s) of the numeric strings used as inputs
IntOfStr == ("30" :> 30)

\* validation of an Optional[str] field: None or a str
AsOptionalStr(v) ==
  IF v.t \in {"null", "str"} THEN Ret(v) ELSE Raise(Exc("ValidationError"))

\* validation of an Optional[int] field: None, an int, a bool, a str of digits
AsOptionalInt(v) ==
  CASE v.t \in {"null", "num"} -> Ret(v)
    [] v.t = "bool" -> Ret(JNum(IF v.b THEN 1 ELSE 0))
    [] v.t = "str" /\ v.s \in DOMAIN IntOfStr -> Ret(JNum(IntOfStr[v.s]))
    [] OTHER -> Raise(Exc("ValidationError"))

\* class FlightMenuAvailability(BaseModel): no alias generator, populated by
\* field name, each value validated against its type
FlightMenuAvailability(operating_carrier_code, flight_num, flight_departure_airport_code, departure_local_date, status, cabins) ==
  LET carrier == AsOptionalStr(operating_carrier_code)
      num == AsOptionalInt(flight_num)
      airport == AsOptionalStr(flight_departure_airport_code)
      local_date == AsOptionalStr(departure_local_date)
  IN  IF carrier.raised \/ num.raised \/ airport.raised \/ local_date.raised
        THEN Raise(Exc("ValidationError"))
        ELSE Ret([operating_carrier_code |-> carrier.val, flight_num |-> num.val,
                  flight_departure_airport_code |-> airport.val,
                  departure_local_date |-> local_date.val,
                  status |-> status, cabins |-> cabins])

\* class MenuAvailabilityResponse(BaseModel): no alias generator
MenuAvailabilityResponse(flight_legs, success, error_message, api_response_time_ms) ==
  [flight_legs |-> flight_legs, success |-> success, error_message |-> error_message,
   api_response_time_ms |-> api_response_time_ms]

\* ---- Python built-ins used on the payload ----

\* str(e) of an exception
StrOfExc(e) == IF "message" \in DOMAIN e THEN Str(e.message) ELSE Str(<<e.class>>)

\* str(v) of a JSON value
PyStr(v) ==
  CASE v.t = "str"  -> v
    [] v.t = "null" -> JStr("None")
    [] v.t = "num"  -> JStr(ToString(v.n))
    [] v.t = "bool" -> JStr(IF v.b THEN "True" ELSE "False")
    [] OTHER        -> JStr("repr")

\* `k in v`: a key of a dict, an element of a list, a substring of a str
\* (a str input contains k only when it equals k)
Contains(v, k) ==
  CASE v.t = "dict" -> HasKey(v, k)
    [] v.t = "list" -> \E i \in 1..Len(v.l) : v.l[i] = JStr(k)
    [] v.t = "str"  -> v.s = k

\* ---- _parse_availability_response ----

InvalidAvailabilityFormat == Str(<<"Invalid availability response format">>)

\* the keywords of CabinAvailability(...) at lines 303-310
CabinKw(cabin_data) ==
     (<<"cabin", "type", "code">> :> DictGet(cabin_data, "cabinTypeCode", JStr("")))
  @@ (<<"cabin", "type", "desc">> :> DictGet(cabin_data, "cabinTypeDesc", JStr("")))
  @@ (<<"pre", "select", "menu", "available">> :>
        DictGet(cabin_data, "preSelectMenuAvailable", JBool(FALSE)))
  @@ (<<"digital", "menu", "available">> :>
        DictGet(cabin_data, "digitalMenuAvailable", JBool(FALSE)))
  @@ (<<"cabin", "preselect", "window", "start", "utc", "ts">> :>
        DictGet(cabin_data, "cabinPreselectWindowStartUtcTs", None))
  @@ (<<"cabin", "preselect", "window", "end", "utc", "ts">> :>
        DictGet(cabin_data, "cabinPreselectWindowEndUtcTs", None))

\* the inner loop over flight_data.get('cabins', []): the CabinAvailability
\* objects, or the exception that ends the loop
RECURSIVE CabinsOf(_)
CabinsOf(cabins) ==
  IF Len(cabins) = 0 THEN Ret(<<>>)
  ELSE
    LET cabin_data == Head(cabins)
    IN  IF cabin_data.t # "dict" THEN Raise(Exc("AttributeError"))
        ELSE
          LET cabin == CabinAvailability(CabinKw(cabin_data))
              rest == CabinsOf(Tail(cabins))
          IN  IF cabin.raised THEN cabin
              ELSE IF rest.raised THEN rest
              ELSE Ret(<<cabin.val>> \o rest.val)

\* one pass of the outer loop: the FlightMenuAvailability of a flight leg
AvailabilityOfLeg(flight_data) ==
  IF flight_data.t # "dict" THEN Raise(Exc("AttributeError"))
  ELSE
    LET listed == Iter(DictGet(flight_data, "cabins", JList(<<>>)))
    IN  IF listed.raised THEN listed
        ELSE
          LET cabins == CabinsOf(listed.val)
          IN  IF cabins.raised THEN cabins
              ELSE FlightMenuAvailability(
                     DictGet(flight_data, "operatingCarrierCode", JStr("")),
                     DictGet(flight_data, "flightNum", JNum(0)),
                     DictGet(flight_data, "flightDepartureAirportCode", JStr("")),
                     DictGet(flight_data, "departureLocalDate", JStr("")),
                     PyStr(DictGet(flight_data, "status", JStr(""))),
                     cabins.val)

\* the outer loop over data['flightLegs']
RECURSIVE LegsOf(_)
LegsOf(legs) ==
  IF Len(legs) = 0 THEN Ret(<<>>)
  ELSE
    LET flight == AvailabilityOfLeg(Head(legs))
    IN  IF flight.raised THEN flight
        ELSE
          LET rest == LegsOf(Tail(legs))
          IN  IF rest.raised THEN rest ELSE Ret(<<flight.val>> \o rest.val)

\* the try block of _parse_availability_response
ParseAvailabilityBody(data, response_time_ms) ==
  IF ~Truthy(data) \/ ~Contains(data, "flightLegs")
    THEN Ret(MenuAvailabilityResponse(<<>>, FALSE, InvalidAvailabilityFormat,
                                      response_time_ms))
  ELSE IF data.t # "dict" THEN Raise(Exc("TypeError"))
  ELSE
    LET listed == Iter(data.d.flightLegs)
    IN  IF listed.raised THEN listed
        ELSE
          LET flight_legs == LegsOf(listed.val)
          IN  IF flight_legs.raised THEN flight_legs
              ELSE Ret(MenuAvailabilityResponse(flight_legs.val, TRUE, None,
                                                response_time_ms))

\* parse_availability_response keeping, next to the failure of a flight leg
\* that cannot be mapped, the legs of the payload that can
parse_availability_response_KeepsLegs(data, response_time_ms) ==
  LET b == ParseAvailabilityBody(data, response_time_ms)
      legs == IF data.t = "dict" /\ HasKey(data, "flightLegs")
                 /\ data.d.flightLegs.t = "list"
                THEN data.d.flightLegs.l ELSE <<>>
      Mapped(leg) == ~AvailabilityOfLeg(leg).raised
      mapped == SelectSeq(legs, Mapped)
  IN  IF ~b.raised THEN b
      ELSE Ret(MenuAvailabilityResponse(
                 [i \in 1..Len(mapped) |-> AvailabilityOfLeg(mapped[i]).val], FALSE,
                 Str(<<"Failed to parse availability response: ">> \o StrOfExc(b.exc).text),
                 response_time_ms))

\* _parse_availability_response: the try block and its handler
parse_availability_response(data, response_time_ms) ==
  LET b == ParseAvailabilityBody(data, response_time_ms)
  IN  IF ~b.raised THEN b
      ELSE Ret(MenuAvailabilityResponse(<<>>, FALSE,
                 Str(<<"Failed to parse availability response: ">> \o StrOfExc(b.exc).text),
                 response_time_ms))

\* ---- check_menu_availability ----

AvailabilityTimedOut == Str(<<"Availability request timed out">>)

\* AvailabilityHandlers with the `except Exception` clause missing
AvailabilityHandlers_TimeoutOnly(body) ==
  IF ~body.raised THEN body
  ELSE IF body.exc.class = "TimeoutException"
    THEN Ret([flight_legs |-> <<>>, success |-> FALSE,
              error_message |-> Str(<<"Availability request timed out">>),
              api_response_time_ms |-> 30000])
  ELSE body

\* the two handlers of check_menu_availability, each returning a response
AvailabilityHandlers(body) ==
  IF ~body.raised THEN body
  ELSE IF body.exc.class = "TimeoutException"
    THEN Ret(MenuAvailabilityResponse(<<>>, FALSE, AvailabilityTimedOut, 30000))
  ELSE Ret(MenuAvailabilityResponse(<<>>, FALSE, StrOfExc(body.exc), None))

\* json=request_data: a dict is serialized, a pydantic object makes
\* json.dumps raise TypeError before anything is sent
JsonSerializable(leg) == "t" \in DOMAIN leg

\* AfterToken sending the POST although no token was obtained
AfterToken_PostsAnyway(auth, flight_legs) ==
  IF \A i \in 1..Len(flight_legs) : JsonSerializable(flight_legs[i])
    THEN [post |-> TRUE,
          bearer |-> IF auth.pc = "returned" THEN auth.value.access_token ELSE 0]
    ELSE [post |-> FALSE, out |-> AvailabilityHandlers(Raise(Exc("TypeError")))]

\* check_menu_availability from the end of get_access_token to the POST:
\* the POST is sent with the bearer token, or the call ends
AfterToken(auth, flight_legs) ==
  IF auth.pc = "raised"
    THEN [post |-> FALSE, out |-> AvailabilityHandlers(Raise(auth.value))]
  ELSE IF \A i \in 1..Len(flight_legs) : JsonSerializable(flight_legs[i])
    THEN [post |-> TRUE, bearer |-> auth.value.access_token]
  ELSE [post |-> FALSE, out |-> AvailabilityHandlers(Raise(Exc("TypeError")))]

\* check_menu_availability from the answer of the POST on
AfterPost(answer, response_time_ms) ==
  AvailabilityHandlers(
    IF answer.kind # "response" THEN Raise(Exc(answer.kind))
    ELSE IF answer.status_code = 200
      THEN IF answer.json = NotJson
             THEN Raise(Exc("JSONDecodeError"))
             ELSE parse_availability_response(answer.json, response_time_ms)
    ELSE Ret(MenuAvailabilityResponse(<<>>, FALSE,
               Str(<<"Availability API returned status code ",
                     ToString(answer.status_code)>>),
               response_time_ms)))

\* ---- inputs ----

\* a flight leg as a plain dict, and as a FlightLeg populated by its aliases
LegDict ==
  JDict([operatingCarrierCode |-> JStr("DL"), flightNum |-> JNum(30),
         flightDepartureAirportCode |-> JStr("ATL"),
         departureLocalDate |-> JStr("2025-09-30")])

LegObject ==
  FlightLeg(   (<<"operating", "Carrier", "Code">> :> JStr("DL"))
            @@ (<<"flight", "Num">> :> JNum(30))
            @@ (<<"flight", "Departure", "Airport", "Code">> :> JStr("ATL"))
            @@ (<<"departure", "Local", "Date">> :> JStr("2025-09-30"))).val

FlightLegLists == { <<LegDict>>, <<LegDict, LegDict>>, <<LegObject>> }

CabinJson(code, pre_select, digital, window_start) ==
  JDict([cabinTypeCode |-> JStr(code), cabinTypeDesc |-> JStr("cabin"),
         preSelectMenuAvailable |-> JBool(pre_select),
         digitalMenuAvailable |-> JBool(digital),
         cabinPreselectWindowStartUtcTs |-> window_start,
         cabinPreselectWindowEndUtcTs |-> None])

LegJson(flight_num, cabins) ==
  JDict([operatingCarrierCode |-> JStr("DL"), flightNum |-> flight_num,
         flightDepartureAirportCode |-> JStr("ATL"),
         departureLocalDate |-> JStr("2025-09-30"), status |-> JNum(0),
         cabins |-> cabins])

\* 200 answers that hold a flight-leg collection
AvailabilityPayloads ==
  { JDict([flightLegs |-> JList(<<>>)]),
    JDict([flightLegs |-> JList(<<LegJson(JNum(30), JList(<<>>))>>)]),
    JDict([flightLegs |-> JList(<<LegJson(JNum(30),
             JList(<<CabinJson("C", TRUE, TRUE, JStr("2025-09-01T00:00:00Z")),
                     CabinJson("F", FALSE, FALSE, None)>>))>>)]),
    JDict([flightLegs |-> JList(<<LegJson(JStr("30"),
             JList(<<CabinJson("Y", FALSE, TRUE, None)>>))>>)]),
    JDict([flightLegs |-> JList(<<LegJson(JNum(30),
             JList(<<JDict([cabinTypeCode |-> JStr("W")])>>)),
                                  LegJson(JNum(31), JList(<<>>))>>)]),
    JDict([flightLegs |-> JList(<<JDict(<<>>)>>)]) }

\* 200 answers without a flight-leg collection
NoLegsPayloads ==
  { None, JDict(<<>>), JDict([error |-> JStr("upstream error")]), JList(<<JStr("x")>>) }

\* 200 answers whose flight-leg collection cannot be mapped
BrokenLegsPayloads ==
  { JDict([flightLegs |-> None]),
    JDict([flightLegs |-> JList(<<JStr("x")>>)]),
    JDict([flightLegs |-> JList(<<LegJson(JStr("thirty"), JList(<<>>))>>)]),
    JDict([flightLegs |-> JList(<<LegJson(JNum(30), JList(<<None>>))>>)]),
    JDict([flightLegs |-> JList(<<LegJson(JNum(30), JList(<<>>)),
                                  LegJson(JStr("thirty"), JList(<<>>))>>)]),
    JList(<<JStr("flightLegs")>>) }

AvailabilityFailStatuses == {201, 401, 500}

\* what `await self.client.post(...)` can produce
AvailabilityAnswers ==
       { [kind |-> "response", status_code |-> 200, text |-> "json", json |-> j]
           : j \in AvailabilityPayloads \cup NoLegsPayloads \cup BrokenLegsPayloads }
  \cup { [kind |-> "response", status_code |-> 200, text |-> "<html>", json |-> NotJson] }
  \cup { [kind |-> "response", status_code |-> st, text |-> "upstream body", json |-> NotJson]
           : st \in AvailabilityFailStatuses }
  \cup { [kind |-> "TimeoutException"], [kind |-> "ConnectError"] }

(***************************************************************************)
(* Part V.  MenuTools.get_menu_by_flight                                   *)
(***************************************************************************)

\* date.fromisoformat of a string given as its separator and its numbers:
\* a date for YYYY-MM-DD naming a day of the calendar, ValueError otherwise
fromisoformat(s) ==
  IF /\ s.sep = "-"
     /\ Len(s.parts) = 3
     /\ s.parts[1] \in 1..9999
     /\ s.parts[2] \in 1..12
     /\ s.parts[3] \in 1..DaysInMonth(s.parts[1], s.parts[2])
    THEN Ret(date(s.parts[1], s.parts[2], s.parts[3]))
    ELSE Raise(Exc("ValueError"))

\* MenuQueryRequest(...) with its validation: flight_number: int = Field(gt=0)
MenuQueryRequestInit(departure_date, flight_number, departure_airport, operating_carrier, lang_cd) ==
  IF flight_number > 0
    THEN Ret(MenuQueryRequest(departure_date, flight_number, departure_airport,
                              operating_carrier, lang_cd))
    ELSE Raise(Exc("ValidationError"))

\* the exception classes that `except ValueError` catches
ValueErrors == {"ValueError", "ValidationError", "JSONDecodeError"}

\* CompleteMenuResponse(query_type="complete_menu", success=False,
\* error_message=...).model_dump(exclude_none=True)
CompleteMenuFailure(error_message) ==
  [query_type |-> "complete_menu", success |-> FALSE, error_message |-> error_message]

\* the same with availability_check
CompleteMenuFailureWith(error_message, availability) ==
  [query_type |-> "complete_menu", success |-> FALSE, error_message |-> error_message,
   availability_check |-> availability]

\* the two handlers of the tool
ToolHandlers(body) ==
  IF ~body.raised THEN body
  ELSE IF body.exc.class \in ValueErrors
    THEN Ret(CompleteMenuFailure(Str(<<"Invalid date format: ">> \o StrOfExc(body.exc).text
                                      \o <<". Use YYYY-MM-DD format.">>)))
  ELSE Ret(CompleteMenuFailure(StrOfExc(body.exc)))

\* how far a piece of the tool runs: to its end, or to a call of the client
ToolDone(out) == [kind |-> "done", out |-> out]
ToolAwaitsAvailability(flight_legs) == [kind |-> "availability", legs |-> flight_legs]
ToolAwaitsMenu(request) == [kind |-> "menu", request |-> request]

\* lines 107-123: FlightInfo(carrier=response.carrier_code, ...) reads an
\* attribute that FlightMenuResponse does not have
ToolAfterMenu(response) ==
  IF response.raised THEN ToolHandlers(response)
  ELSE IF <<"carrier", "code">> \notin DOMAIN response.val.fields
    THEN ToolHandlers(Raise(Exc("AttributeError")))
  ELSE Ret([query_type |-> "complete_menu",
            flight_info |-> [carrier |-> response.val.fields[<<"carrier", "code">>]],
            success |-> response.val.fields[<<"success">>],
            error_message |-> response.val.fields[<<"error", "message">>],
            menu_services |-> response.val.fields[<<"menu", "services">>]])

\* lines 92-105: the date is parsed, the request built, and
\* client.get_menu_by_flight is called with it
ToolMenuPhase(args) ==
  LET dep_date == fromisoformat(args.departure_date)
  IN  IF dep_date.raised THEN ToolDone(ToolHandlers(dep_date))
      ELSE
        LET request == MenuQueryRequestInit(dep_date.val, args.flight_number,
                                            args.departure_airport,
                                            args.operating_carrier, args.lang_cd)
        IN  IF request.raised THEN ToolDone(ToolHandlers(request))
                              ELSE ToolAwaitsMenu(request.val)

\* the availability dict of lines 58-68: the cabins keyed by
\* cabin.cabin_type_code, a later cabin replacing an earlier one of equal key
AvailabilityDict(cabins) ==
  LET Code(i) == cabins[i].fields[<<"cabin", "type", "code">>]
      kept == {i \in 1..Len(cabins) : \A j \in (i + 1)..Len(cabins) : Code(j) # Code(i)}
  IN  [i \in kept |-> cabins[i].fields]

\* lines 58-90: from the answer of check_menu_availability on
ToolAfterAvailability(args, availability_response) ==
  IF availability_response.raised THEN ToolDone(ToolHandlers(availability_response))
  ELSE
    LET r == availability_response.val
        info == IF r.success /\ Len(r.flight_legs) > 0
                  THEN AvailabilityDict(r.flight_legs[1].cabins)
                  ELSE <<>>
        availability == [success |-> r.success, error_message |-> r.error_message,
                         availability |-> info]
        available_cabins ==
          {i \in DOMAIN info : Truthy(info[i][<<"digital", "menu", "available">>])}
    IN  IF ~r.success
          THEN ToolDone(Ret(CompleteMenuFailureWith(
                 Str(<<"Availability check failed: ">>
                       \o (IF r.error_message = None THEN <<"None">>
                                                      ELSE r.error_message.text)),
                 availability)))
        ELSE IF available_cabins = {}
          THEN ToolDone(Ret(CompleteMenuFailureWith(
                 Str(<<"No digital menus available for this flight">>), availability)))
        ELSE ToolMenuPhase(args)

\* lines 48-57: the tool from its call on
ToolBegin(args) ==
  IF args.check_availability
    THEN LET flight_leg ==
               FlightLeg(   (<<"operating", "carrier", "code">> :> args.operating_carrier)
                         @@ (<<"flight", "num">> :> args.flight_number)
                         @@ (<<"flight", "departure", "airport", "code">> :>
                               args.departure_airport)
                         @@ (<<"departure", "local", "date">> :> args.departure_date))
         IN  IF flight_leg.raised THEN ToolDone(ToolHandlers(flight_leg))
                                  ELSE ToolAwaitsAvailability(<<flight_leg.val>>)
    ELSE ToolMenuPhase(args)

\* ---- inputs ----
IsoDate(year, month, day) == [sep |-> "-", parts |-> <<year, month, day>>]

\* past, inside the window of every today, too far ahead, not a day of the
\* calendar, not YYYY-MM-DD
DateStrings ==
  { IsoDate(2020, 1, 1), IsoDate(2027, 10, 31), IsoDate(2030, 1, 1),
    IsoDate(2027, 2, 30), [sep |-> "/", parts |-> <<30, 9, 2025>>] }

ToolArgs ==
  { [departure_date |-> d, flight_number |-> n, departure_airport |-> a,
     operating_carrier |-> k, lang_cd |-> "en-US", check_availability |-> b]
      : d \in DateStrings, n \in {0, 1110, 10000},
        a \in {<<"A", "T", "L">>, <<"A", "1">>}, k \in {<<"D", "L">>, <<"D", "1">>},
        b \in BOOLEAN }

(***************************************************************************)
(* Actions of the client calls and of the tool                             *)
(***************************************************************************)

\* the tool call of caller c moves on: it ends without a call of the
\* client, or it calls client.get_menu_by_flight (line 105), which runs to
\* its GET or ends before it as in MenuCall (on a closed transport the GET
\* raises at once); when that call has ended the tool ends as well
ToolProceed(c, step) ==
  IF step.kind = "done"
    THEN /\ tpc' = [tpc EXCEPT ![c] = "done"]
         /\ tout' = [tout EXCEPT ![c] = step.out]
         /\ UNCHANGED <<menuVars, http>>
    ELSE LET before == BeforeGet(step.request)
             s == send(http)
             ended == MenuHandlers(IF before.raised THEN before
                                                    ELSE Raise(Exc(ClientClosed.kind)),
                                   step.request)
         IN  /\ http' = IF before.raised THEN http ELSE s.client
             /\ mreq' = [mreq EXCEPT ![c] = step.request]
             /\ IF ~before.raised /\ s.sent
                  THEN /\ tpc' = [tpc EXCEPT ![c] = "menu"]
                       /\ mpc' = [mpc EXCEPT ![c] = "awaiting"]
                       /\ msent' = [msent EXCEPT ![c] = msent[c] + 1]
                       /\ UNCHANGED <<tout, mup, mout>>
                  ELSE /\ tpc' = [tpc EXCEPT ![c] = "done"]
                       /\ tout' = [tout EXCEPT ![c] = ToolAfterMenu(ended)]
                       /\ mpc' = [mpc EXCEPT ![c] = "done"]
                       /\ mout' = [mout EXCEPT ![c] = ended]
                       /\ UNCHANGED <<msent, mup>>

\* what a step of check_menu_availability means to its caller: nothing to a
\* direct caller (args = None); the tool waits while the call is suspended
\* and runs on when it has ended.  While the call is suspended the request
\* it sent accounts for http.
AvailabilityStep(c, args, ended, out) ==
  IF ~ended
    THEN /\ tpc' = IF args = None THEN tpc ELSE [tpc EXCEPT ![c] = "availability"]
         /\ UNCHANGED <<tout, menuVars>>
  ELSE IF args = None THEN UNCHANGED <<tpc, tout, menuVars, http>>
  ELSE ToolProceed(c, ToolAfterAvailability(args, out))

\* check_menu_availability runs on after get_access_token has ended: the
\* POST is sent, or the call ends (no token, a request that cannot be
\* serialized, a closed transport)
ContinueAvailability(c, auth, flight_legs, sent, args) ==
  LET a == AfterToken(auth, flight_legs)
      s == send(http)
      closed == AvailabilityHandlers(Raise(Exc(ClientClosed.kind)))
  IN  /\ aauth' = [aauth EXCEPT ![c] = auth]
      /\ IF a.post /\ s.sent
           THEN /\ apc' = [apc EXCEPT ![c] = "posting"]
                /\ asent' = [asent EXCEPT ![c] =
                               Append(sent, [kind |-> "POST", bearer |-> a.bearer])]
                /\ http' = s.client
                /\ UNCHANGED aout
                /\ AvailabilityStep(c, args, FALSE, None)
           ELSE LET out == IF a.post THEN closed ELSE a.out
                IN  /\ apc' = [apc EXCEPT ![c] = "done"]
                    /\ asent' = [asent EXCEPT ![c] = sent]
                    /\ aout' = [aout EXCEPT ![c] = out]
                    /\ AvailabilityStep(c, args, TRUE, out)

\* check_menu_availability up to its first suspension point: the token is
\* cached and the POST is sent, or the credential exchange is sent
BeginAvailability(c, flight_legs, args) ==
  /\ alegs' = [alegs EXCEPT ![c] = flight_legs]
  /\ IF TokenUsable(token, now)
       THEN /\ ContinueAvailability(c, [pc |-> "returned",
                                        value |-> [access_token |-> token.access_token]],
                                    flight_legs, <<>>, args)
            /\ lastOutcome' = "returned"
            /\ UNCHANGED <<exchanges, oauthHttp>>
       ELSE LET s == send(oauthHttp)
                a == AfterRefresh(ClientClosed, token, now)
            IN  /\ oauthHttp' = s.client
                /\ IF s.sent
                     THEN /\ exchanges < MaxExchanges
                          /\ exchanges' = exchanges + 1
                          /\ apc' = [apc EXCEPT ![c] = "refreshing"]
                          /\ asent' = [asent EXCEPT ![c] = <<[kind |-> "token"]>>]
                          /\ UNCHANGED <<aauth, aout, http, lastOutcome>>
                          /\ AvailabilityStep(c, args, FALSE, None)
                     ELSE /\ ContinueAvailability(c, [pc |-> a.pc, value |-> a.value],
                                                  flight_legs, <<>>, args)
                          /\ lastOutcome' = a.pc
                          /\ UNCHANGED exchanges
  /\ UNCHANGED <<now, token, pc, result, upstream, retInfo, issued, aup>>

\* a caller calls check_menu_availability of the client
AvailCall(c) ==
  /\ apc[c] = "idle"
  /\ tpc[c] = "idle"
  /\ \E flight_legs \in FlightLegLists : BeginAvailability(c, flight_legs, None)
  /\ UNCHANGED <<targs, closing, sideVars>>

\* the credential exchange of an availability call is answered
AvailExchangeAnswered(c) ==
  /\ apc[c] = "refreshing"
  /\ \E resp \in TokenResponses(issued + 1) :
       LET a == AfterRefresh(resp, token, now)
       IN  /\ token' = a.token
           /\ lastOutcome' = a.pc
           /\ issued' = IF resp.kind = "response" /\ resp.status_code = 200
                           /\ HasTokenKeys(resp.json)
                          THEN issued + 1 ELSE issued
           /\ ContinueAvailability(c, [pc |-> a.pc, value |-> a.value], alegs[c], asent[c],
                                   IF tpc[c] = "availability" THEN targs[c] ELSE None)
  /\ UNCHANGED <<now, pc, result, upstream, retInfo, exchanges, alegs, aup, targs,
                 oauthHttp, closing, sideVars>>

\* the POST is answered and check_menu_availability runs to its end
AvailAnswered(c) ==
  /\ apc[c] = "posting"
  /\ \E answer \in AvailabilityAnswers, ms \in ElapsedMs :
       LET out == AfterPost(answer, ms)
       IN  /\ aup' = [aup EXCEPT ![c] = answer]
           /\ aout' = [aout EXCEPT ![c] = out]
           /\ AvailabilityStep(c, IF tpc[c] = "availability" THEN targs[c] ELSE None,
                               TRUE, out)
  /\ apc' = [apc EXCEPT ![c] = "done"]
  /\ UNCHANGED <<alegs, aauth, asent, targs, oauthVars, oauthHttp, closing, sideVars>>

\* the direct caller has consumed the outcome
AvailConsume(c) ==
  /\ apc[c] = "done"
  /\ tpc[c] = "idle"
  /\ apc' = [apc EXCEPT ![c] = "idle"]
  /\ alegs' = [alegs EXCEPT ![c] = None]
  /\ aauth' = [aauth EXCEPT ![c] = None]
  /\ aup' = [aup EXCEPT ![c] = None]
  /\ aout' = [aout EXCEPT ![c] = None]
  /\ asent' = [asent EXCEPT ![c] = <<>>]
  /\ UNCHANGED <<oauthVars, menuVars, toolVars, transportVars, sideVars>>

\* the GET is answered and get_menu_by_flight runs to its end; when the tool
\* called it, the tool runs to its end as well
MenuAnswered(c) ==
  /\ mpc[c] = "awaiting"
  /\ \E answer \in MenuAnswers, ms \in ElapsedMs :
       LET out == AfterGet(mreq[c], answer, ms)
       IN  /\ mup' = [mup EXCEPT ![c] = answer]
           /\ mout' = [mout EXCEPT ![c] = out]
           /\ IF tpc[c] = "menu"
                THEN /\ tpc' = [tpc EXCEPT ![c] = "done"]
                     /\ tout' = [tout EXCEPT ![c] = ToolAfterMenu(out)]
                ELSE UNCHANGED <<tpc, tout>>
  /\ mpc' = [mpc EXCEPT ![c] = "done"]
  /\ UNCHANGED <<mreq, msent, targs, oauthVars, availVars, transportVars, sideVars>>

\* the direct caller has consumed the outcome
MenuConsume(c) ==
  /\ mpc[c] = "done"
  /\ tpc[c] = "idle"
  /\ mpc' = [mpc EXCEPT ![c] = "idle"]
  /\ mreq' = [mreq EXCEPT ![c] = None]
  /\ mup' = [mup EXCEPT ![c] = None]
  /\ mout' = [mout EXCEPT ![c] = None]
  /\ msent' = [msent EXCEPT ![c] = 0]
  /\ UNCHANGED <<oauthVars, extVars>>

\* the get_menu_by_flight tool is called
ToolCall(c) ==
  /\ tpc[c] = "idle"
  /\ apc[c] = "idle"
  /\ mpc[c] = "idle"
  /\ \E args \in ToolArgs :
       LET step == ToolBegin(args)
       IN  /\ targs' = [targs EXCEPT ![c] = args]
           /\ IF step.kind = "availability"
                THEN BeginAvailability(c, step.legs, args)
                ELSE /\ ToolProceed(c, step)
                     /\ UNCHANGED <<oauthVars, availVars, oauthHttp>>
  /\ UNCHANGED <<closing, sideVars>>

\* the caller of the tool has consumed the outcome
ToolConsume(c) ==
  /\ tpc[c] = "done"
  /\ tpc' = [tpc EXCEPT ![c] = "idle"]
  /\ targs' = [targs EXCEPT ![c] = None]
  /\ tout' = [tout EXCEPT ![c] = None]
  /\ apc' = [apc EXCEPT ![c] = "idle"]
  /\ alegs' = [alegs EXCEPT ![c] = None]
  /\ aauth' = [aauth EXCEPT ![c] = None]
  /\ aup' = [aup EXCEPT ![c] = None]
  /\ aout' = [aout EXCEPT ![c] = None]
  /\ asent' = [asent EXCEPT ![c] = <<>>]
  /\ mpc' = [mpc EXCEPT ![c] = "idle"]
  /\ mreq' = [mreq EXCEPT ![c] = None]
  /\ mup' = [mup EXCEPT ![c] = None]
  /\ mout' = [mout EXCEPT ![c] = None]
  /\ msent' = [msent EXCEPT ![c] = 0]
  /\ UNCHANGED <<oauthVars, transportVars, sideVars>>

NextMenu ==
  \/ \E c \in Callers : MenuCall(c)
  \/ \E c \in Callers : MenuAnswered(c)
  \/ \E c \in Callers : MenuConsume(c)

\* callers of get_menu_by_flight on one client
SpecMenu == Init /\ [][NextMenu]_vars

\* caller d holds a returned value or a raised exception it has not taken
\* yet: what a call returned is no state of the client
Pending(d) ==
  \/ pc[d] \in {"returned", "raised"}
  \/ tpc[d] = "done"
  \/ (tpc[d] = "idle" /\ (apc[d] = "done" \/ mpc[d] = "done"))
  \/ hpc[d] = "done"

\* every caller has taken what its call returned; calls in progress remain
Consumed == \A d \in Callers : ~Pending(d)

\* the calls in progress: each is suspended at a request it has sent
InFlight ==
    Cardinality({c \in Callers : pc[c] = "refreshing"})
  + Cardinality({c \in Callers : mpc[c] = "awaiting"})
  + Cardinality({c \in Callers : apc[c] \in {"refreshing", "posting"}})
  + Cardinality({c \in Callers : hpc[c] = "awaiting"})

NextAvail ==
  \/ \E c \in Callers : Consumed /\ AvailCall(c)
  \/ \E c \in Callers : Consumed /\ AvailExchangeAnswered(c)
  \/ \E c \in Callers : Consumed /\ AvailAnswered(c)
  \/ \E c \in Callers : AvailConsume(c)
  \/ Consumed /\ Tick

\* callers of check_menu_availability running concurrently on one client:
\* a call begins, and an answer arrives, while other calls are suspended; a
\* caller takes the value returned to it before the next step of any call
SpecAvail == Init /\ [][NextAvail]_vars

\* the answers and arguments SpecTool and SpecClient draw for the calls of
\* the client: a success and a failure of each request
ClientTokenResponses(issuedId) ==
  { r \in TokenResponses(issuedId) :
      /\ r.kind = "response"
      /\ \/ r.status_code = 200 /\ HasTokenKeys(r.json) /\ r.json.expires_in \in {60, 120}
         \/ r.status_code = 401 /\ r.text = "invalid_client" }

ClientMenuAnswers ==
  { a \in MenuAnswers :
      \/ a.kind = "TimeoutException"
      \/ /\ a.kind = "response"
         /\ a.status_code = 200
         /\ a.json = JDict([flightMenus |-> JList(<<EntryJson(<<ServiceC, ServiceW>>)>>)]) }

ClientAvailabilityAnswers ==
  { a \in AvailabilityAnswers :
      \/ a.kind = "TimeoutException"
      \/ /\ a.kind = "response"
         /\ a.status_code = 200
         /\ a.json = JDict([flightLegs |-> JList(<<LegJson(JNum(30), JList(<<>>))>>)]) }

ClientLegLists == { <<LegDict>> }

ClientRequests == { r \in Requests : "cabin_code" \in DOMAIN r }

NextTool ==
  \/ \E c \in Callers :
       /\ Consumed
       /\ InFlight < MaxInFlight
       /\ ToolCall(c)
       /\ exchanges' <= MaxClientExchanges
  \/ \E c \in Callers : ToolConsume(c)
  \/ \E c \in Callers :
       /\ Consumed
       /\ InFlight < MaxInFlight
       /\ \E flight_legs \in ClientLegLists :
            /\ alegs' = [alegs EXCEPT ![c] = flight_legs]
            /\ AvailCall(c)
       /\ exchanges' <= MaxClientExchanges
  \/ \E c \in Callers :
       /\ Consumed
       /\ \E resp \in ClientTokenResponses(issued + 1) :
            LET a == AfterRefresh(resp, token, now)
            IN  /\ token' = a.token
                /\ aauth' = [aauth EXCEPT ![c] = [pc |-> a.pc, value |-> a.value]]
                /\ AvailExchangeAnswered(c)
  \/ \E c \in Callers :
       /\ Consumed
       /\ \E answer \in ClientAvailabilityAnswers :
            /\ aup' = [aup EXCEPT ![c] = answer]
            /\ AvailAnswered(c)
            /\ answer.kind = "response" => aout'[c].val.api_response_time_ms = 120
  \/ \E c \in Callers : AvailConsume(c)
  \/ \E c \in Callers :
       /\ Consumed
       /\ InFlight < MaxInFlight
       /\ \E request \in ClientRequests :
            /\ mreq' = [mreq EXCEPT ![c] = request]
            /\ MenuCall(c)
  \/ \E c \in Callers :
       /\ Consumed
       /\ \E answer \in ClientMenuAnswers :
            /\ mup' = [mup EXCEPT ![c] = answer]
            /\ MenuAnswered(c)
  \/ \E c \in Callers : MenuConsume(c)

\* callers of the tool and of the client it uses, running concurrently,
\* within the lifetime of the tokens issued
SpecTool == Init /\ [][NextTool]_vars

(***************************************************************************)
(* Claims on the tool and on check_menu_availability                       *)
(***************************************************************************)

\* the arguments fail validation: the date is no date, or validate finds an
\* issue whatever day of Todays it is
InvalidToolArgs(args) ==
  LET d == fromisoformat(args.departure_date)
  IN  \/ d.raised
      \/ \A today \in Todays :
           ~validate(MenuQuery(d.val, args.flight_number, args.departure_airport,
                               args.operating_carrier), today).is_valid

\* C18: a tool call whose arguments fail validation ends where it starts, in
\* a returned failure, and sends no HTTP request: no credential exchange, no
\* availability POST, no menu GET, with check_availability or without.
C18_InvalidNeverReachesNetwork ==
  \A c \in Callers :
    (tpc[c] # "idle" /\ InvalidToolArgs(targs[c])) =>
      /\ tpc[c] = "done"
      /\ ~tout[c].raised
      /\ tout[c].val.success = FALSE
      /\ tout[c].val.error_message # None
      /\ asent[c] = <<>>
      /\ msent[c] = 0

\* a call with check_availability, a past date and flight number 10000 has
\* ended in a failure without any request
C18_Witness ==
  \E c \in Callers :
    /\ tpc[c] = "done"
    /\ targs[c].check_availability
    /\ targs[c].departure_date = IsoDate(2020, 1, 1)
    /\ targs[c].flight_number = 10000
    /\ InvalidToolArgs(targs[c])
    /\ tout[c].val.success = FALSE
    /\ asent[c] = <<>>
    /\ msent[c] = 0

\* get_access_token raised in the availability call of caller c
TokenFailed(c) == aauth[c] # None /\ aauth[c].pc = "raised"

\* the POSTs among the requests the availability call of caller c has sent
Posts(c) == {i \in 1..Len(asent[c]) : asent[c][i].kind = "POST"}

\* the messages of the outcomes a POST can end in
PostOutcomeMessages ==
  {AfterPost(answer, ms).val.error_message : answer \in AvailabilityAnswers, ms \in ElapsedMs}

\* C19: a POST is sent only after get_access_token has returned, and with
\* the token it returned; when get_access_token raises, the call ends
\* without a POST in a failure whose message is the message of that
\* exception, which no outcome of a POST carries.
C19_TokenFirst ==
  \A c \in Callers :
    /\ \A i \in Posts(c) :
         /\ aauth[c] # None
         /\ aauth[c].pc = "returned"
         /\ asent[c][i].bearer = aauth[c].value.access_token
    /\ TokenFailed(c) =>
         /\ apc[c] = "done"
         /\ Posts(c) = {}
         /\ ~aout[c].raised
         /\ aout[c].val.success = FALSE
         /\ aout[c].val.error_message = Str(aauth[c].value.message)
         /\ aout[c].val.error_message \notin PostOutcomeMessages

\* the exchange failed with 401 while an older token was cached: the call
\* ended with the token manager's message and without a POST
C19_Witness ==
  \E c \in Callers :
    /\ TokenFailed(c)
    /\ token # None
    /\ Carries(aauth[c].value.message, "401")
    /\ asent[c] = <<[kind |-> "token"]>>
    /\ apc[c] = "done"
    /\ aout[c].val.error_message = Str(aauth[c].value.message)

\* the payload holds no list under flightLegs
LacksFlightLegs(json) ==
  ~(json.t = "dict" /\ HasKey(json, "flightLegs") /\ json.d.flightLegs.t = "list")

\* the POST of caller c was answered with a status outside 2xx, or with 200
\* and a body that is not JSON or holds no flight-leg collection
BadAvailabilityAnswer(c) ==
  /\ aup[c] # None
  /\ aup[c].kind = "response"
  /\ \/ aup[c].status_code \notin 200..299
     \/ /\ aup[c].status_code = 200
        /\ \/ aup[c].json = NotJson
           \/ LacksFlightLegs(aup[c].json)

\* C20: check_menu_availability never raises; a status outside 2xx, a 200
\* body that is not JSON and a 200 payload without a flight-leg collection
\* each end in a returned failure with a message and no flight legs.
C20_AvailabilityNeverRaises ==
  \A c \in Callers :
    apc[c] = "done" =>
      /\ ~aout[c].raised
      /\ BadAvailabilityAnswer(c) =>
           /\ aout[c].val.success = FALSE
           /\ aout[c].val.error_message # None
           /\ aout[c].val.flight_legs = <<>>

\* a 200 answer whose body is not JSON has ended in a returned failure
C20_Witness ==
  \E c \in Callers :
    /\ apc[c] = "done"
    /\ aup[c] # None
    /\ aup[c].kind = "response"
    /\ aup[c].status_code = 200
    /\ aup[c].json = NotJson
    /\ ~aout[c].raised
    /\ aout[c].val.success = FALSE

(***************************************************************************)
(* Claims on the availability mapping                                      *)
(***************************************************************************)

\* the POST of caller c was answered 200 with a payload that holds a
\* flight-leg collection, and the call has ended
AnsweredWithLegs(c) ==
  /\ apc[c] = "done"
  /\ aup[c] # None
  /\ aup[c].kind = "response"
  /\ aup[c].status_code = 200
  /\ aup[c].json \in AvailabilityPayloads

\* the cabins upstream lists for a flight leg
UpstreamCabins(flight_data) == DictGet(flight_data, "cabins", JList(<<>>)).l

\* the mapped cabin carries the four upstream values of cabin_data, absent
\* ones as null
SameAvailability(cabin, cabin_data) ==
  /\ cabin.fields[<<"pre", "select", "menu", "available">>]
       = DictGet(cabin_data, "preSelectMenuAvailable", None)
  /\ cabin.fields[<<"digital", "menu", "available">>]
       = DictGet(cabin_data, "digitalMenuAvailable", None)
  /\ cabin.fields[<<"cabin", "preselect", "window", "start", "utc", "ts">>]
       = DictGet(cabin_data, "cabinPreselectWindowStartUtcTs", None)
  /\ cabin.fields[<<"cabin", "preselect", "window", "end", "utc", "ts">>]
       = DictGet(cabin_data, "cabinPreselectWindowEndUtcTs", None)

\* C21: the availability result has one entry per upstream flight leg and in
\* it one CabinAvailability per upstream cabin, in upstream order, whose
\* pre-select flag, digital-menu flag and pre-select window start and end are
\* the upstream values unchanged, an absent or null value staying null.
C21_StructuralMapping ==
  \A c \in Callers :
    AnsweredWithLegs(c) =>
      /\ ~aout[c].raised
      /\ aout[c].val.success
      /\ LET legs == aout[c].val.flight_legs
             upstream_legs == aup[c].json.d.flightLegs.l
         IN  /\ Len(legs) = Len(upstream_legs)
             /\ \A i \in 1..Len(legs) :
                  LET cabins == legs[i].cabins
                      upstream_cabins == UpstreamCabins(upstream_legs[i])
                  IN  /\ Len(cabins) = Len(upstream_cabins)
                      /\ \A j \in 1..Len(cabins) :
                           SameAvailability(cabins[j], upstream_cabins[j])

(***************************************************************************)
(* Part VI.  The health probe and the lifetime of the transports           *)
(***************************************************************************)

\* what the GET of check_api_health can produce
ProbeStatuses == {200, 404, 500, 503}

ProbeAnswers ==
       { [kind |-> "response", status_code |-> st] : st \in ProbeStatuses }
  \cup { [kind |-> "TimeoutException"], [kind |-> "ConnectError"] }

\* check_api_health from the outcome of its GET on: the dict it returns
AfterProbe(answer, response_time_ms) ==
  IF answer.kind # "response"
    THEN [status |-> "unhealthy", error |-> Str(<<answer.kind>>)]
    ELSE [status |-> IF answer.status_code < 500 THEN "healthy" ELSE "unhealthy",
          status_code |-> answer.status_code, response_time_ms |-> response_time_ms]

\* check_api_health is called: its GET is sent, or raises on a closed transport
HealthCall(c) ==
  /\ hpc[c] = "idle"
  /\ LET s == send(http)
     IN  /\ http' = s.client
         /\ IF s.sent
              THEN /\ hpc' = [hpc EXCEPT ![c] = "awaiting"]
                   /\ UNCHANGED <<hup, hout>>
              ELSE /\ hpc' = [hpc EXCEPT ![c] = "done"]
                   /\ hup' = [hup EXCEPT ![c] = ClientClosed]
                   /\ hout' = [hout EXCEPT ![c] = AfterProbe(ClientClosed, 0)]
  /\ UNCHANGED <<oauthVars, menuVars, validateVars, availVars, toolVars, oauthHttp, closing,
                 lookupVars>>

\* the GET of the probe is answered
HealthAnswered(c) ==
  /\ hpc[c] = "awaiting"
  /\ \E answer \in ProbeAnswers, ms \in ElapsedMs :
       /\ hup' = [hup EXCEPT ![c] = answer]
       /\ hout' = [hout EXCEPT ![c] = AfterProbe(answer, ms)]
  /\ hpc' = [hpc EXCEPT ![c] = "done"]
  /\ UNCHANGED <<oauthVars, menuVars, validateVars, availVars, toolVars, transportVars,
                 lookupVars>>

\* the caller has consumed the probe's result
HealthConsume(c) ==
  /\ hpc[c] = "done"
  /\ hpc' = [hpc EXCEPT ![c] = "idle"]
  /\ hup' = [hup EXCEPT ![c] = None]
  /\ hout' = [hout EXCEPT ![c] = None]
  /\ UNCHANGED <<oauthVars, menuVars, validateVars, availVars, toolVars, transportVars,
                 lookupVars>>

\* close releasing the transport of the menu client only
close_ClientOnly(client, manager_client) == [client |-> aclose(client), manager |-> manager_client]

\* DeltaMenuClient.close: `await self.client.aclose()`, then
\* `await self.oauth_manager.close()`, which is `await self._client.aclose()`
close(client, manager_client) == [client |-> aclose(client), manager |-> aclose(manager_client)]

\* close() is called and runs to the end of its first await
CloseBegin ==
  /\ closing = "no"
  /\ http' = close(http, oauthHttp).client
  /\ closing' = "closing"
  /\ UNCHANGED <<oauthVars, menuVars, validateVars, availVars, toolVars, oauthHttp,
                 healthVars, lookupVars>>

\* close() runs on to its end
CloseEnd ==
  /\ closing = "closing"
  /\ oauthHttp' = close(http, oauthHttp).manager
  /\ closing' = "closed"
  /\ UNCHANGED <<oauthVars, menuVars, validateVars, availVars, toolVars, http,
                 healthVars, lookupVars>>

\* DeltaOAuthManager.close, also run by `async with manager:` on exit: the
\* transport of the manager is closed, the one of the menu client is not
ManagerClose ==
  /\ oauthHttp' = aclose(oauthHttp)
  /\ UNCHANGED <<oauthVars, menuVars, validateVars, availVars, toolVars, http, closing,
                 healthVars, lookupVars>>

ClientProbeAnswers ==
  { a \in ProbeAnswers : a.kind = "TimeoutException" \/ (a.kind = "response" /\ a.status_code = 200) }

NextClient ==
  \/ \E c \in Callers :
       /\ Consumed
       /\ InFlight < MaxInFlight
       /\ GetAccessToken(c)
       /\ exchanges' <= MaxClientExchanges
  \/ \E c \in Callers :
       /\ Consumed
       /\ \E resp \in ClientTokenResponses(issued + 1) :
            /\ upstream' = [upstream EXCEPT ![c] = resp]
            /\ ExchangeAnswered(c)
  \/ \E c \in Callers : Consume(c)
  \/ \E c \in Callers :
       /\ Consumed
       /\ InFlight < MaxInFlight
       /\ \E request \in ClientRequests :
            /\ mreq' = [mreq EXCEPT ![c] = request]
            /\ MenuCall(c)
  \/ \E c \in Callers :
       /\ Consumed
       /\ \E answer \in ClientMenuAnswers :
            /\ mup' = [mup EXCEPT ![c] = answer]
            /\ MenuAnswered(c)
  \/ \E c \in Callers : MenuConsume(c)
  \/ \E c \in Callers :
       /\ Consumed
       /\ InFlight < MaxInFlight
       /\ \E flight_legs \in ClientLegLists :
            /\ alegs' = [alegs EXCEPT ![c] = flight_legs]
            /\ AvailCall(c)
       /\ exchanges' <= MaxClientExchanges
  \/ \E c \in Callers :
       /\ Consumed
       /\ \E resp \in ClientTokenResponses(issued + 1) :
            LET a == AfterRefresh(resp, token, now)
            IN  /\ token' = a.token
                /\ aauth' = [aauth EXCEPT ![c] = [pc |-> a.pc, value |-> a.value]]
                /\ AvailExchangeAnswered(c)
  \/ \E c \in Callers :
       /\ Consumed
       /\ \E answer \in ClientAvailabilityAnswers :
            /\ aup' = [aup EXCEPT ![c] = answer]
            /\ AvailAnswered(c)
            /\ answer.kind = "response" => aout'[c].val.api_response_time_ms = 120
  \/ \E c \in Callers : AvailConsume(c)
  \/ \E c \in Callers : Consumed /\ InFlight < MaxInFlight /\ HealthCall(c)
  \/ \E c \in Callers :
       /\ Consumed
       /\ \E answer \in ClientProbeAnswers :
            /\ hup' = [hup EXCEPT ![c] = answer]
            /\ hout' = [hout EXCEPT ![c] = AfterProbe(answer, 120)]
            /\ HealthAnswered(c)
  \/ \E c \in Callers : HealthConsume(c)
  \/ Consumed /\ CloseBegin
  \/ Consumed /\ CloseEnd
  \/ Consumed /\ ManagerClose

\* one DeltaMenuClient and its token manager from construction to close():
\* the calls of the client and of the manager running concurrently, close()
\* of the client and close() of the manager at any moment. A caller takes
\* the value returned to it before the next step of any call; the answers
\* are one of each kind, and the clock stands still (a token is usable or
\* not by its expires_in)
SpecClient == Init /\ [][NextClient]_vars

(***************************************************************************)
(* Claims on the calls of the client and on its transports                 *)
(***************************************************************************)

\* the number of requests of a kind the availability call of caller c sent
SentOfKind(c, kind) == Cardinality({i \in 1..Len(asent[c]) : asent[c][i].kind = kind})

\* the credential exchange or the POST of the availability call of caller c
\* failed
AvailabilityCallFailed(c) ==
  \/ TokenFailed(c)
  \/ /\ aup[c] # None
     /\ \/ aup[c].kind # "response"
        \/ BadAvailabilityAnswer(c)

\* a credential exchange is sent only by the step that starts a call, one
\* at most, and the step in which an answer arrives ends the call
OneRequestPerStep ==
  /\ exchanges' \in {exchanges, exchanges + 1}
  /\ exchanges' = exchanges + 1 =>
       \E c \in Callers : \/ (pc[c] = "idle" /\ pc'[c] = "refreshing")
                           \/ (apc[c] = "idle" /\ apc'[c] = "refreshing")
  /\ \A c \in Callers :
       /\ (pc[c] = "refreshing" /\ upstream'[c] # upstream[c]) =>
            pc'[c] \in {"returned", "raised"}
       /\ (mpc[c] = "awaiting" /\ mup'[c] # mup[c]) => mpc'[c] = "done"
       /\ (apc[c] = "posting" /\ aup'[c] # aup[c]) => apc'[c] = "done"

\* C22: no retries: a get_menu_by_flight call sends at most one GET, a
\* check_menu_availability call at most one credential exchange and one
\* POST, a get_access_token call at most one credential exchange; and a
\* failed request ends its call at once in the classified error: a returned
\* failure of the two client calls, the exception of get_access_token.
C22_NoRetries ==
  /\ [](\A c \in Callers :
          /\ msent[c] <= 1
          /\ SentOfKind(c, "token") <= 1
          /\ SentOfKind(c, "POST") <= 1
          /\ (mup[c] # None /\ MenuCallFailed(c)) =>
               /\ MenuReturned(c)
               /\ MenuField(c, <<"success">>) = FALSE
               /\ MenuField(c, <<"error", "message">>) # None
          /\ AvailabilityCallFailed(c) =>
               /\ apc[c] = "done"
               /\ ~aout[c].raised
               /\ aout[c].val.success = FALSE
               /\ aout[c].val.error_message # None
          /\ ExchangeFailed(c) => pc[c] = "raised")
  /\ [][OneRequestPerStep]_vars

\* a step of a get_menu_by_flight call
MenuStep == menuVars' # menuVars

\* C23: no step of get_menu_by_flight, its start or the arrival of its
\* answer, calls the token manager: the cached token, the number of
\* credential exchanges sent and the manager's transport stay as they are,
\* whether a token is cached, usable or expired.
C23_MenuNeedsNoToken ==
  [][MenuStep => /\ token' = token
                 /\ exchanges' = exchanges
                 /\ issued' = issued
                 /\ oauthHttp' = oauthHttp
                 /\ \A c \in Callers : pc'[c] = pc[c]]_vars

\* a menu GET was sent and answered while the cached token had expired, and
\* the one exchange that issued it is still the only one
C23_Witness ==
  \E c \in Callers :
    /\ mpc[c] = "done"
    /\ msent[c] = 1
    /\ mup[c] # None
    /\ token # None
    /\ ~TokenUsable(token, now)
    /\ exchanges = 1

\* a step of a call of the client or of the manager
CallStep == <<oauthVars, menuVars, availVars, healthVars>>' # <<oauthVars, menuVars, availVars, healthVars>>

\* C24: the two transports are the ones the constructors created: no step
\* of a call replaces, closes or re-opens one, a closed transport stays
\* closed, and when close() of the client has returned both are closed.
C24_TransportLifetime ==
  /\ [](/\ http.id = 1
        /\ oauthHttp.id = 2
        /\ closing = "closing" => http.state = "closed"
        /\ closing = "closed" => (http.state = "closed" /\ oauthHttp.state = "closed"))
  /\ [][/\ CallStep => (http' = http /\ oauthHttp' = oauthHttp)
        /\ http.state = "closed" => http'.state = "closed"
        /\ oauthHttp.state = "closed" => oauthHttp'.state = "closed"]_vars

\* after close(), and after an earlier credential exchange, an availability
\* call has ended without sending a request: its get_access_token failed on
\* the closed transport
C24_Witness ==
  /\ closing = "closed"
  /\ \E c \in Callers :
       /\ apc[c] = "done"
       /\ asent[c] = <<>>
       /\ aout[c].val.error_message = Str(<<"Failed to get OAuth token: ", "RuntimeError">>)
  /\ exchanges >= 1

(***************************************************************************)
(* Claims on the shape of the normalized menu                              *)
(***************************************************************************)

\* the items upstream lists in the menus of a service
RECURSIVE UpstreamItems(_)
UpstreamItems(menus) ==
  IF Len(menus) = 0 THEN <<>>
  ELSE DictGet(Head(menus), "menuItems", JList(<<>>)).l \o UpstreamItems(Tail(menus))

\* the key is absent from the upstream object, or null
Absent(v, k) == DictGet(v, k, None) = None

\* the cabin normalized from a service carries null where the service lacks
\* the field, and so does each of its items
NothingInvented(cabin, service) ==
  /\ Absent(service, "cabinTypeCode") => cabin.cabin_code = None
  /\ Absent(service, "cabinTypeDesc") => cabin.cabin_name = None
  /\ Absent(service, "primaryMenuServiceTypeDesc") => cabin.service_time = None
  /\ Absent(service, "cabinWelcomeMessage") => cabin.special_notes = None
  /\ LET items == UpstreamItems(service.d.menus.l)
     IN  /\ Len(cabin.menu_items) = Len(items)
         /\ \A i \in 1..Len(items) :
              /\ Absent(items[i], "menuItemDesc") =>
                   cabin.menu_items[i].fields[<<"menu", "item", "desc">>] = None
              /\ Absent(items[i], "menuItemTypeName") =>
                   cabin.menu_items[i].fields[<<"menu", "item", "type", "name">>] = None
              /\ Absent(items[i], "menuItemDietaryAsgmts") =>
                   cabin.menu_items[i].fields[<<"menu", "item", "dietary", "asgmts">>] = <<>>

\* C25: a well-formed payload with absent fields is normalized to a success,
\* and every cabin normalized from it has null (or an empty list) where the
\* upstream field is absent, never a placeholder.
C25_NoInventedData ==
  \A c \in Callers :
    (Answered200(c) /\ mup[c].json \in SparsePayloads) =>
      /\ MenuReturned(c)
      /\ MenuField(c, <<"success">>) = TRUE
      /\ LET services == FirstEntryServices(mup[c].json)
         IN  \A i \in 1..Len(services) :
               parse_cabin_menu(services[i]) # None =>
                 NothingInvented(parse_cabin_menu(services[i]), services[i])

\* the service holds a menu that holds an item
HasItems(service) ==
  /\ service.t = "dict"
  /\ DictGet(service, "menus", JList(<<>>)).t = "list"
  /\ Len(UpstreamItems(DictGet(service, "menus", JList(<<>>)).l)) > 0

\* the cabin codes of the services of a list that hold an item, in order
CodesWithItems(services) ==
  LET kept == SelectSeq(services, HasItems)
  IN  [i \in 1..Len(kept) |-> kept[i].d.cabinTypeCode]

\* the cabin codes of a list of normalized cabins
CodesOf(cabins) == [i \in 1..Len(cabins) |-> cabins[i].cabin_code]

\* C26: of a payload with one or more flight-menu entries only the first is
\* mapped: the result is a success whose arrival airport and cabins are
\* those of entry 0, whatever the later entries hold.
C26_FirstEntryOnly ==
  \A c \in Callers :
    (Answered200(c) /\ mup[c].json \in MenuPayloads \cup TwoEntryPayloads) =>
      /\ MenuReturned(c)
      /\ MenuField(c, <<"success">>) = TRUE
      /\ MenuField(c, <<"flight", "arrival", "airport", "code">>)
           = DictGet(mup[c].json.d.flightMenus.l[1], "flightArrivalAirportCode", None)
      /\ CodesOf(MenuField(c, <<"menu", "services">>))
           = CodesWithItems(FirstEntryServices(mup[c].json))

\* the payload holds a first flight-menu entry that is an object with a list
\* of services (or none)
HasFirstEntry(json) ==
  /\ json \in NoMenuPayloads \cup MenuPayloads \cup BrokenCabinPayloads
  /\ Len(json.d.flightMenus.l) > 0

\* C27: the cabins of a result are the services of the first entry that
\* yield at least one item, in upstream order, each with a non-empty item
\* list; a service without items or one that cannot be parsed is dropped
\* and the result stays a success.
C27_CabinListShape ==
  \A c \in Callers :
    (Answered200(c) /\ HasFirstEntry(mup[c].json)) =>
      /\ MenuReturned(c)
      /\ MenuField(c, <<"success">>) = TRUE
      /\ LET cabins == MenuField(c, <<"menu", "services">>)
         IN  /\ CodesOf(cabins) = CodesWithItems(FirstEntryServices(mup[c].json))
             /\ \A i \in 1..Len(cabins) : Len(cabins[i].menu_items) > 0

(***************************************************************************)
(* Claims on the availability-first workflow of the tool                   *)
(***************************************************************************)

\* the availability call made for caller c has ended in a success whose
\* first flight leg lists a cabin with digital_menu_available = true
DigitalMenuOffered(c) ==
  /\ apc[c] = "done"
  /\ ~aout[c].raised
  /\ aout[c].val.success
  /\ Len(aout[c].val.flight_legs) > 0
  /\ \E i \in 1..Len(aout[c].val.flight_legs[1].cabins) :
       aout[c].val.flight_legs[1].cabins[i].fields[<<"digital", "menu", "available">>]
         = JBool(TRUE)

\* C28: in a tool call with check_availability = true the availability
\* check has ended before a menu GET is sent, a menu GET is sent only when
\* the check succeeded and the first flight leg has a cabin with a digital
\* menu, and otherwise the call ends in a returned failure that carries the
\* result of the availability check, without a menu GET.
C28_AvailabilityFirst ==
  \A c \in Callers :
    (tpc[c] # "idle" /\ targs[c].check_availability) =>
      /\ tpc[c] \in {"menu", "done"} => apc[c] = "done"
      /\ msent[c] > 0 => DigitalMenuOffered(c)
      /\ (tpc[c] = "done" /\ ~DigitalMenuOffered(c)) =>
           /\ msent[c] = 0
           /\ ~tout[c].raised
           /\ tout[c].val.success = FALSE
           /\ "availability_check" \in DOMAIN tout[c].val
           /\ tout[c].val.availability_check.success = aout[c].val.success
           /\ tout[c].val.availability_check.error_message = aout[c].val.error_message

\* C29: every response check_menu_availability returns with success = false
\* has an empty flight_legs list and an error_message, and every one with
\* success = true has no error_message.
C29_AvailabilityResultInvariant ==
  \A c \in Callers :
    (apc[c] = "done" /\ ~aout[c].raised) =>
      IF aout[c].val.success
        THEN aout[c].val.error_message = None
        ELSE /\ aout[c].val.flight_legs = <<>>
             /\ aout[c].val.error_message # None

\* a 200 answer whose first flight leg maps and whose second does not has
\* ended in a failure that keeps no flight leg and carries the parse message
C29_Witness ==
  \E c \in Callers :
    /\ apc[c] = "done"
    /\ aup[c] # None
    /\ aup[c].kind = "response"
    /\ aup[c].status_code = 200
    /\ aup[c].json \in BrokenLegsPayloads
    /\ aup[c].json.t = "dict"
    /\ aup[c].json.d.flightLegs.t = "list"
    /\ Len(aup[c].json.d.flightLegs.l) = 2
    /\ ~aout[c].raised
    /\ ~aout[c].val.success
    /\ aout[c].val.flight_legs = <<>>
    /\ aout[c].val.error_message # None

(***************************************************************************)
(* Part VII.  FlightRepository.lookup_flights and the connection pool      *)
(***************************************************************************)

\* FlightLookupRequest: the route, the date and the carrier of a lookup
FlightLookupRequest(departure_airport, arrival_airport, departure_date, operating_carrier) ==
  [departure_airport |-> departure_airport, arrival_airport |-> arrival_airport,
   departure_date |-> departure_date, operating_carrier |-> operating_carrier]

FlightOption(flight_number, departure_time, arrival_time) ==
  [flight_number |-> flight_number, departure_time |-> departure_time,
   arrival_time |-> arrival_time]

FlightLookupResponse(request, departure_date, flights, success, error_message) ==
  [departure_airport |-> request.departure_airport,
   arrival_airport |-> request.arrival_airport,
   departure_date |-> departure_date,
   operating_carrier |-> request.operating_carrier,
   flights |-> flights, success |-> success, error_message |-> error_message]

\* a datetime the driver returns for a DATE column, as minutes since the
\* midnight (GMT) that precedes the first departure of the local day
datetime(minute) == [t |-> "datetime", minute |-> minute]

\* datetime.strftime('%H:%M'): hour of the day and minute, the day dropped
strftime_HM(dt) == Str(<<(dt.minute \div 60) % 24, ":", dt.minute % 60>>)

\* an exception of the driver or of a conversion, with the text str(e) gives
Error(class, text) == [class |-> class, message |-> <<text>>]

\* int(row[0]) for what the driver can hand over in a numeric column
int(v) ==
  IF v.t = "num" THEN Ret(v.n)
  ELSE IF v.t = "str"
    THEN IF v.s \in DOMAIN IntOfStr THEN Ret(IntOfStr[v.s])
         ELSE Raise(Error("ValueError", "invalid literal for int() with base 10"))
  ELSE Raise(Error("TypeError", "int() argument must be a string, a bytes-like object or a real number, not 'NoneType'"))

\* one element of the list comprehension: the FlightOption of a row
FlightOfRow(row) ==
  LET n == int(row[1])
  IN  IF n.raised THEN n
      ELSE Ret(FlightOption(n.val,
                 IF row[2] # None THEN strftime_HM(row[2]) ELSE None,
                 IF row[3] # None THEN strftime_HM(row[3]) ELSE None))

\* the list comprehension over the fetched rows, in their order
RECURSIVE FlightsOfRows(_)
FlightsOfRows(rows) ==
  IF Len(rows) = 0 THEN Ret(<<>>)
  ELSE
    LET flight == FlightOfRow(Head(rows))
    IN  IF flight.raised THEN flight
        ELSE
          LET rest == FlightsOfRows(Tail(rows))
          IN  IF rest.raised THEN rest ELSE Ret(<<flight.val>> \o rest.val)

\* the body of the `with` statement: cursor, execute, fetchall, the
\* conversion of the rows, cursor.close and the returned response
QueryFlights(request, db) ==
  IF db.fails = "cursor" THEN Raise(Error("InterfaceError", "DPY-1001: not connected to database"))
  ELSE IF db.fails = "execute" THEN Raise(Error("DatabaseError", "ORA-00942: table or view does not exist"))
  ELSE IF db.fails = "fetchall" THEN Raise(Error("DatabaseError", "ORA-03113: end-of-file on communication channel"))
  ELSE
    LET flights == FlightsOfRows(db.rows)
    IN  IF flights.raised THEN flights
        ELSE IF db.fails = "close" THEN Raise(Error("InterfaceError", "DPY-1006: cursor is not open"))
        ELSE Ret(FlightLookupResponse(request, isoformat(request.departure_date),
                                      flights.val, TRUE, None))

\* oracledb.create_pool(...) next to the pools made so far: one more pool,
\* open and with no connection out, unless the database cannot be reached
create_pool(pools, reachable) ==
  IF reachable THEN Ret(Append(pools, [open |-> TRUE, busy |-> 0]))
  ELSE Raise(Error("OperationalError", "DPY-6005: cannot connect to database"))

\* `self._pool.acquire()` of get_connection: _pool is read at this moment
acquire(p, available) ==
  IF p._pool = 0
    THEN Raise(Error("AttributeError", "'NoneType' object has no attribute 'acquire'"))
  ELSE IF ~p.pools[p._pool].open
    THEN Raise(Error("InterfaceError", "DPY-1002: connection pool is not open"))
  ELSE IF ~available
    THEN Raise(Error("DatabaseError", "DPY-4005: timed out waiting for the connection pool to return a connection"))
  ELSE Ret([pool |-> [p EXCEPT !.pools[p._pool].busy = @ + 1], connection |-> p._pool])

\* `self._pool.release(connection)` in the `finally` of get_connection:
\* _pool is read again and the connection is released through the pool it
\* names now.  Through the pool the connection is of, that pool has it
\* back; through another open pool the call returns as well, and whether
\* the connection's own pool has it back (own) is the library's matter
release(p, connection, own) ==
  IF p._pool = 0
    THEN Raise(Error("AttributeError", "'NoneType' object has no attribute 'release'"))
  ELSE IF ~p.pools[p._pool].open
    THEN Raise(Error("InterfaceError", "DPY-1002: connection pool is not open"))
  ELSE Ret(IF p._pool = connection \/ own
             THEN [p EXCEPT !.pools[connection].busy = @ - 1]
             ELSE p)

\* `self._pool.close()` of OracleConnectionPool.close, entered when _pool
\* is set: a pool with a connection out refuses (close(force=False))
close_pool(p) ==
  IF p.pools[p._pool].busy > 0
    THEN Raise(Error("DatabaseError", "DPY-1005: connection pool cannot be closed because connections are busy"))
  ELSE Ret([p EXCEPT !.pools[p._pool].open = FALSE])

\* the handler of lookup_flights: an exception of the `with` statement
\* becomes a failure response, a returned response is returned
LookupResult(request, out) ==
  IF ~out.raised THEN out
  ELSE Ret(FlightLookupResponse(request, isoformat(request.departure_date), <<>>, FALSE,
             Str(<<"Database query failed: ">> \o StrOfExc(out.exc).text)))

\* ---- inputs ----

LookupRequests ==
  { FlightLookupRequest("ATL", "LHR", date(2025, 9, 13), "DL"),
    FlightLookupRequest("JFK", "LAX", date(2025, 12, 1), "DL") }

\* results of the query, ordered by the departure timestamp as ORDER BY
\* SCH_DPRT_GDTTM has the database return them (nulls last)
RowSets ==
  { <<>>,
    << <<JNum(30), datetime(1265), datetime(1760)>> >>,
    << <<JNum(30), datetime(1410), datetime(1900)>>,
       <<JStr("30"), datetime(1515), None>> >>,
    << <<JNum(32), datetime(600), datetime(1100)>>,
       <<JNum(34), None, None>> >>,
    << <<JNum(30), datetime(600), datetime(1100)>>,
       <<None, datetime(700), datetime(1200)>> >>,
    << <<JStr("DL30"), datetime(600), datetime(1100)>> >> }

LookupFailures == {"cursor", "execute", "fetchall", "close"}

\* what the database does during the body of the `with` statement: the
\* step that fails, if any, and the rows of the query
LookupWorlds ==
       { [fails |-> f, rows |-> <<>>] : f \in LookupFailures \ {"close"} }
  \cup { [fails |-> f, rows |-> r] : f \in {"none", "close"}, r \in RowSets }

\* ---- actions ----

otherVars == <<oauthVars, menuVars, validateVars, availVars, toolVars, transportVars, healthVars>>

\* lookup_flights is called and suspends in `await get_db_connection()`,
\* whose worker thread only makes the context manager
LookupCall(c) ==
  /\ lpc[c] = "idle"
  /\ loop = 0
  /\ \E request \in LookupRequests : lreq' = [lreq EXCEPT ![c] = request]
  /\ ldb' = [ldb EXCEPT ![c] = [fails |-> "none", rows |-> <<>>]]
  /\ lpc' = [lpc EXCEPT ![c] = "connecting"]
  /\ UNCHANGED <<pool, lout, lacq, lrel, lconn, lbody, loop, ipc, cpc, otherVars>>

\* the call resumes on the event loop and enters the `with` statement:
\* `if self._pool is None` of get_connection and of initialize
LookupResume(c) ==
  /\ lpc[c] = "connecting"
  /\ loop = 0
  /\ loop' = c
  /\ lpc' = [lpc EXCEPT ![c] = IF pool._pool = 0 THEN "create_pool" ELSE "acquire"]
  /\ UNCHANGED <<pool, lreq, ldb, lout, lacq, lrel, lconn, lbody, ipc, cpc, otherVars>>

\* the `with` statement of caller c ends in an exception before its body
LookupEnds(c, exc, failed) ==
  /\ lout' = [lout EXCEPT ![c] = LookupResult(lreq[c], Raise(exc))]
  /\ ldb' = [ldb EXCEPT ![c].fails = failed]
  /\ lpc' = [lpc EXCEPT ![c] = "done"]
  /\ loop' = 0

\* initialize on the event loop: create_pool returns and _pool is assigned
LookupCreatePool(c) ==
  /\ lpc[c] = "create_pool"
  /\ \E reachable \in BOOLEAN :
       LET made == create_pool(pool.pools, reachable)
       IN  IF made.raised
             THEN /\ LookupEnds(c, made.exc, "create_pool")
                  /\ UNCHANGED pool
             ELSE /\ Len(pool.pools) < MaxPools
                  /\ pool' = [_pool |-> Len(made.val), pools |-> made.val]
                  /\ lpc' = [lpc EXCEPT ![c] = "acquire"]
                  /\ UNCHANGED <<ldb, lout, loop>>
  /\ UNCHANGED <<lreq, lacq, lrel, lconn, lbody, ipc, cpc, otherVars>>

\* `connection = self._pool.acquire()`
LookupAcquire(c) ==
  /\ lpc[c] = "acquire"
  /\ \E available \in BOOLEAN :
       LET got == acquire(pool, available)
       IN  IF got.raised
             THEN /\ LookupEnds(c, got.exc, "acquire")
                  /\ UNCHANGED <<pool, lconn, lacq>>
             ELSE /\ pool' = got.val.pool
                  /\ lconn' = [lconn EXCEPT ![c] = got.val.connection]
                  /\ lacq' = [lacq EXCEPT ![c] = lacq[c] + 1]
                  /\ lpc' = [lpc EXCEPT ![c] = "query"]
                  /\ UNCHANGED <<ldb, lout, loop>>
  /\ UNCHANGED <<lreq, lrel, lbody, ipc, cpc, otherVars>>

\* the body of the `with` statement runs to its return or its exception
LookupQuery(c) ==
  /\ lpc[c] = "query"
  /\ \E db \in LookupWorlds :
       /\ ldb' = [ldb EXCEPT ![c] = db]
       /\ lbody' = [lbody EXCEPT ![c] = QueryFlights(lreq[c], db)]
  /\ lpc' = [lpc EXCEPT ![c] = "release"]
  /\ UNCHANGED <<pool, lreq, lout, lacq, lrel, lconn, loop, ipc, cpc, otherVars>>

\* `finally: self._pool.release(connection)`, and lookup_flights returns:
\* an exception of the release replaces the outcome of the body
LookupRelease(c) ==
  /\ lpc[c] = "release"
  /\ \E own \in BOOLEAN :
     LET given == release(pool, lconn[c], own)
     IN  /\ pool' = IF given.raised THEN pool ELSE given.val
         /\ lrel' = [lrel EXCEPT ![c] = IF given.raised THEN lrel[c] ELSE lrel[c] + 1]
         /\ lout' = [lout EXCEPT ![c] =
                       LookupResult(lreq[c], IF given.raised THEN given ELSE lbody[c])]
  /\ lpc' = [lpc EXCEPT ![c] = "done"]
  /\ loop' = 0
  /\ UNCHANGED <<lreq, ldb, lacq, lconn, lbody, ipc, cpc, otherVars>>

\* the caller has consumed the response
LookupConsume(c) ==
  /\ lpc[c] = "done"
  /\ lpc' = [lpc EXCEPT ![c] = "idle"]
  /\ lreq' = [lreq EXCEPT ![c] = None]
  /\ ldb' = [ldb EXCEPT ![c] = None]
  /\ lout' = [lout EXCEPT ![c] = None]
  /\ lacq' = [lacq EXCEPT ![c] = 0]
  /\ lrel' = [lrel EXCEPT ![c] = 0]
  /\ lconn' = [lconn EXCEPT ![c] = 0]
  /\ lbody' = [lbody EXCEPT ![c] = None]
  /\ UNCHANGED <<pool, loop, ipc, cpc, otherVars>>

\* initialize_db_pool is called: asyncio.to_thread starts a worker thread
\* for OracleConnectionPool.initialize, which runs when it is scheduled
initialize_db_pool ==
  /\ ipc = "idle"
  /\ ipc' = "started"
  /\ UNCHANGED <<pool, lpc, lreq, ldb, lout, lacq, lrel, lconn, lbody, loop, cpc, otherVars>>

\* the worker thread: `if self._pool is None`
InitializeTest ==
  /\ ipc = "started"
  /\ ipc' = IF pool._pool = 0 THEN "create_pool" ELSE "idle"
  /\ UNCHANGED <<pool, lpc, lreq, ldb, lout, lacq, lrel, lconn, lbody, loop, cpc, otherVars>>

\* the worker thread: create_pool returns and _pool is assigned, whatever
\* _pool has become since the test
InitializeCreatePool ==
  /\ ipc = "create_pool"
  /\ \E reachable \in BOOLEAN :
       LET made == create_pool(pool.pools, reachable)
       IN  IF made.raised THEN UNCHANGED pool
           ELSE /\ Len(pool.pools) < MaxPools
                /\ pool' = [_pool |-> Len(made.val), pools |-> made.val]
  /\ ipc' = "idle"
  /\ UNCHANGED <<lpc, lreq, ldb, lout, lacq, lrel, lconn, lbody, loop, cpc, otherVars>>

\* close_db_pool is called: asyncio.to_thread starts a worker thread for
\* OracleConnectionPool.close, which runs when it is scheduled
close_db_pool ==
  /\ cpc = "idle"
  /\ cpc' = "started"
  /\ UNCHANGED <<pool, lpc, lreq, ldb, lout, lacq, lrel, lconn, lbody, loop, ipc, otherVars>>

\* the worker thread: `if self._pool:` and `self._pool.close()`
ClosePool ==
  /\ cpc = "started"
  /\ IF pool._pool = 0 \/ close_pool(pool).raised
       THEN /\ cpc' = "idle"
            /\ UNCHANGED pool
       ELSE /\ cpc' = "assign"
            /\ pool' = close_pool(pool).val
  /\ UNCHANGED <<lpc, lreq, ldb, lout, lacq, lrel, lconn, lbody, loop, ipc, otherVars>>

\* the worker thread: `self._pool = None`, whatever _pool has become
CloseAssign ==
  /\ cpc = "assign"
  /\ pool' = [pool EXCEPT !._pool = 0]
  /\ cpc' = "idle"
  /\ UNCHANGED <<lpc, lreq, ldb, lout, lacq, lrel, lconn, lbody, loop, ipc, otherVars>>

\* the steps of lookup_flights
LookupSteps ==
  \/ \E c \in Callers : LookupCall(c)
  \/ \E c \in Callers : LookupResume(c)
  \/ \E c \in Callers : LookupCreatePool(c)
  \/ \E c \in Callers : LookupAcquire(c)
  \/ \E c \in Callers : LookupQuery(c)
  \/ \E c \in Callers : LookupRelease(c)
  \/ \E c \in Callers : LookupConsume(c)

NextLookup ==
  \/ LookupSteps
  \/ initialize_db_pool
  \/ InitializeTest
  \/ InitializeCreatePool
  \/ close_db_pool
  \/ ClosePool
  \/ CloseAssign

\* callers of lookup_flights, of initialize_db_pool and of close_db_pool on
\* one event loop, the worker threads of the two running beside it
SpecLookup == Init /\ [][NextLookup]_vars

\* callers of lookup_flights alone: no worker thread touches the pool
SpecLookupAlone == Init /\ [][LookupSteps]_vars

(***************************************************************************)
(* Claims on the flight lookup                                             *)
(***************************************************************************)

\* a step of the call the database failed at
QueryFailed(c) == ldb[c].fails # "none"

\* a row whose flight number int() cannot convert
ConversionFailed(c) ==
  /\ ldb[c].fails \in {"none", "close"}
  /\ \E i \in 1..Len(ldb[c].rows) : int(ldb[c].rows[i][1]).raised

\* the flights of the response are the rows of the query, one for one and in
\* their order, which is the order of the departure timestamps
InDepartureOrder(flights, rows) ==
  /\ Len(flights) = Len(rows)
  /\ \A i \in 1..Len(rows) :
       /\ flights[i].flight_number = int(rows[i][1]).val
       /\ flights[i].departure_time = IF rows[i][2] = None THEN None ELSE strftime_HM(rows[i][2])
       /\ flights[i].arrival_time = IF rows[i][3] = None THEN None ELSE strftime_HM(rows[i][3])
  /\ \A i, j \in 1..Len(rows) :
       (i < j /\ rows[i][2] # None /\ rows[j][2] # None) =>
         rows[i][2].minute <= rows[j][2].minute

\* the connections out of the pools are those of the `with` statement that
\* is running: none when none is running
NoConnectionOut ==
  loop = 0 => \A i \in 1..Len(pool.pools) : pool.pools[i].busy = 0

\* C30: lookup_flights never raises and never leaks a connection: on every
\* path (query success, query failure, row-conversion failure) a connection
\* acquired from the pool is released exactly once and is back in its pool;
\* a failure is returned as a response with success = false, no flights and
\* an error message, and a success has success = true and the flights in
\* departure-time order.
C30_LookupNeverRaisesNorLeaks ==
  /\ NoConnectionOut
  /\ \A c \in Callers :
       lpc[c] = "done" =>
         /\ ~lout[c].raised
         /\ lacq[c] <= 1
         /\ lrel[c] = lacq[c]
         /\ lout[c].val.success = (~QueryFailed(c) /\ ~ConversionFailed(c))
         /\ lout[c].val.departure_airport = lreq[c].departure_airport
         /\ IF lout[c].val.success
              THEN /\ lacq[c] = 1
                   /\ lout[c].val.error_message = None
                   /\ InDepartureOrder(lout[c].val.flights, ldb[c].rows)
              ELSE /\ lout[c].val.flights = <<>>
                   /\ lout[c].val.error_message # None
                   /\ lout[c].val.error_message.text[1] = "Database query failed: "

====
